---- MODULE Spec2Model ----
(***************************************************************************)
(* liq-sim: the bar-driven execution simulator (Simulator.run) with its    *)
(* accounting, constraint pipeline, matcher and bracket manager.           *)
(*                                                                         *)
(* Money, prices and quantities are Decimal in the source; here they are   *)
(* integers in one fixed unit, and the parameter sets below are chosen so  *)
(* that every division the source performs is exact.  Percentages given as *)
(* floats in the source (0.25) are whole percents here (25).               *)
(* A timestamp is a tick count; TicksPerDay consecutive ticks share a date.*)
(* The runs modelled pass no fx_rates and leave funding.enabled and        *)
(* borrow_rate_annual at their defaults (off).                             *)
(***************************************************************************)
EXTENDS Integers, Sequences, FiniteSets, TLC

(* cfg, orders, bars: the configuration and the arguments of run.  sim: a   *)
(* simulator.  peer: a second simulator of the same process.  process_rng: *)
(* the state of the process-wide `random` module.  log: the calls made on  *)
(* the two simulators.                                                     *)
VARIABLES cfg, orders, bars, sim, peer, process_rng, log

vars == <<cfg, orders, bars, sim, peer, process_rng, log>>

-----------------------------------------------------------------------------
(* Bounds of the model *)

NumBars == 3
MaxOrders == 2
TicksPerDay == 2
MaxCalls == 4

(* Python's None for an optional number *)
None == 0 - 1

Symbols == {"AAPL", "GOOGL"}


Date(ts) == ts \div TicksPerDay

Min(a, b) == IF a < b THEN a ELSE b
Max(a, b) == IF a > b THEN a ELSE b
Abs(a) == IF a < 0 THEN 0 - a ELSE a

(* `x or Decimal("0")` *)
OrZero(x) == IF x = None THEN 0 ELSE x

RECURSIVE SumSeq(_)
SumSeq(s) == IF s = <<>> THEN 0 ELSE Head(s) + SumSeq(Tail(s))

RECURSIVE SumOver(_, _)
SumOver(f, S) ==
  IF S = {} THEN 0
  ELSE LET x == CHOOSE y \in S : TRUE IN f[x] + SumOver(f, S \ {x})

-----------------------------------------------------------------------------
(* validation.py *)

(* `if min_delay_bars < 0: raise ValueError(...)` in is_order_eligible *)
is_order_eligible_raises(min_delay_bars) == min_delay_bars < 0

is_order_eligible(order_bar_index, current_bar_index, min_delay_bars) ==
  current_bar_index - order_bar_index >= min_delay_bars

(* A variant of no_lookahead that never raises *)
no_lookahead_never_raises(order_timestamp, current_bar_timestamp) == TRUE

(* TRUE when assert_no_lookahead returns, FALSE when it raises *)
no_lookahead(order_timestamp, current_bar_timestamp) ==
  ~(order_timestamp > current_bar_timestamp)

-----------------------------------------------------------------------------
(* execution.py: match_order.  The result is <<>> (None) or <<fill>>. *)

Fill(order, price, slippage, commission, ts, fill_id) ==
  [fill_id |-> fill_id,
   client_order_id |-> order.client_order_id,
   symbol |-> order.symbol,
   side |-> order.side,
   quantity |-> order.quantity,
   price |-> price,
   commission |-> commission,
   slippage |-> slippage,
   realized_pnl |-> None,
   timestamp |-> ts]

match_limit(order, bar, limit_price, slippage, commission, ts, fill_id) ==
  IF order.side = "buy"
  THEN IF bar.low <= OrZero(limit_price)
       THEN IF bar.open < OrZero(limit_price)
            THEN <<Fill(order, Min(bar.open, limit_price), slippage, commission, ts, fill_id)>>
            ELSE <<Fill(order, IF OrZero(limit_price) # 0 THEN limit_price ELSE bar.open,
                        slippage, commission, ts, fill_id)>>
       ELSE <<>>
  ELSE IF bar.high >= OrZero(limit_price)
       THEN IF bar.open > OrZero(limit_price)
            THEN <<Fill(order, Max(bar.open, OrZero(limit_price)), slippage, commission, ts, fill_id)>>
            ELSE <<Fill(order, IF OrZero(limit_price) # 0 THEN limit_price ELSE bar.open,
                        slippage, commission, ts, fill_id)>>
       ELSE <<>>

match_stop(order, bar, stop_price, slippage, commission, ts, fill_id) ==
  IF order.side = "buy"
  THEN IF bar.high >= OrZero(stop_price)
       THEN <<Fill(order, Max(OrZero(stop_price), bar.open) + slippage,
                   slippage, commission, ts, fill_id)>>
       ELSE <<>>
  ELSE IF bar.low <= OrZero(stop_price)
       THEN <<Fill(order, Min(OrZero(stop_price), bar.open) - slippage,
                   slippage, commission, ts, fill_id)>>
       ELSE <<>>

match_order(order, bar, slippage, commission, ts, fill_id) ==
  LET stop_hit == IF order.side = "buy"
                  THEN bar.high >= OrZero(order.stop_price)
                  ELSE bar.low <= OrZero(order.stop_price)
      effective_type == IF order.order_type = "STOP_LIMIT" THEN "LIMIT"
                        ELSE order.order_type
  IN  IF order.order_type = "STOP_LIMIT" /\ ~stop_hit THEN <<>>
      ELSE IF effective_type = "MARKET"
      THEN IF order.side = "buy"
           THEN <<Fill(order, bar.open + slippage, slippage, commission, ts, fill_id)>>
           ELSE <<Fill(order, bar.open - slippage, slippage, commission, ts, fill_id)>>
      ELSE IF effective_type = "LIMIT"
      THEN match_limit(order, bar, order.limit_price, slippage, commission, ts, fill_id)
      ELSE IF effective_type = "STOP"
      THEN match_stop(order, bar, order.stop_price, slippage, commission, ts, fill_id)
      ELSE <<>>

-----------------------------------------------------------------------------
(* accounting.py: PositionRecord *)

EmptyRecord == [lots |-> <<>>, realized_pnl |-> 0]

RECURSIVE SumLots(_)
SumLots(lots) == IF lots = <<>> THEN 0 ELSE Head(lots).quantity + SumLots(Tail(lots))

net_quantity(rec) == SumLots(rec.lots)

RemoveAt(s, i) == SubSeq(s, 1, i - 1) \o SubSeq(s, i + 1, Len(s))

(* _consume_lots: the while loop, idx counted from 1.                      *)
(* Returns the lots left, the quantity left and the realized P&L.          *)
RECURSIVE consume_lots(_, _, _, _, _, _)
consume_lots(lots, idx, quantity, fill_price, is_closing_long, realized) ==
  IF ~(quantity > 0 /\ idx <= Len(lots))
  THEN [lots |-> lots, quantity |-> quantity, realized |-> realized]
  ELSE LET lot == lots[idx] IN
       IF is_closing_long /\ lot.quantity <= 0
       THEN consume_lots(lots, idx + 1, quantity, fill_price, is_closing_long, realized)
       ELSE IF ~is_closing_long /\ lot.quantity >= 0
       THEN consume_lots(lots, idx + 1, quantity, fill_price, is_closing_long, realized)
       ELSE LET close_qty == Min(quantity, Abs(lot.quantity))
                pnl == IF is_closing_long
                       THEN (fill_price - lot.entry_price) * close_qty
                       ELSE (lot.entry_price - fill_price) * close_qty
                new_qty == IF is_closing_long
                           THEN lot.quantity - close_qty
                           ELSE lot.quantity + close_qty
            IN  IF new_qty = 0
                THEN consume_lots(RemoveAt(lots, idx), idx, quantity - close_qty,
                                  fill_price, is_closing_long, realized + pnl)
                ELSE consume_lots([lots EXCEPT ![idx].quantity = new_qty], idx + 1,
                                  quantity - close_qty, fill_price, is_closing_long,
                                  realized + pnl)

Reverse(s) == [i \in 1..Len(s) |-> s[Len(s) + 1 - i]]

(* A variant of PositionRecord.apply_fill that closes the newest lots first *)
record_apply_fill_newest_first(rec, fill) ==
  LET c == consume_lots(Reverse(rec.lots), 1, fill.quantity, fill.price,
                        fill.side = "sell", 0)
      signed == IF fill.side = "sell" THEN 0 - c.quantity ELSE c.quantity
      lots2 == IF c.quantity > 0
               THEN Append(Reverse(c.lots),
                           [quantity |-> signed, entry_price |-> fill.price,
                            entry_time |-> fill.timestamp])
               ELSE Reverse(c.lots)
  IN  [rec |-> [lots |-> lots2, realized_pnl |-> rec.realized_pnl + c.realized],
       realized |-> c.realized]

(* PositionRecord.apply_fill: the record after the fill and the realized P&L *)
record_apply_fill(rec, fill) ==
  LET c == consume_lots(rec.lots, 1, fill.quantity, fill.price, fill.side = "sell", 0)
      signed == IF fill.side = "sell" THEN 0 - c.quantity ELSE c.quantity
      lots2 == IF c.quantity > 0
               THEN Append(c.lots, [quantity |-> signed, entry_price |-> fill.price,
                                    entry_time |-> fill.timestamp])
               ELSE c.lots
  IN  [rec |-> [lots |-> lots2, realized_pnl |-> rec.realized_pnl + c.realized],
       realized |-> c.realized]

-----------------------------------------------------------------------------
(* accounting.py: AccountState.  The account is the fields cash,           *)
(* unsettled_cash, positions, settlement_queue, day_trades_remaining of a  *)
(* simulator record; a symbol without a key in `positions` is the empty    *)
(* record here (every reader of the dict treats the two alike).            *)

(* A variant of account_apply_fill that pays a sell's proceeds to cash at  *)
(* once, whatever settlement_days *)
account_apply_fill_cash_at_once(s, fill, settlement_days) ==
  LET r == record_apply_fill(s.positions[fill.symbol], fill)
      notional == fill.price * fill.quantity
      total_cost == notional + fill.commission
      proceeds == notional - fill.commission
      s1 == [s EXCEPT !.positions[fill.symbol] = r.rec]
      s2 == IF fill.side = "buy"
            THEN [s1 EXCEPT !.cash = @ - total_cost]
            ELSE [s1 EXCEPT !.cash = @ + proceeds]
  IN  [s |-> s2, realized |-> r.realized]

(* A variant of account_apply_fill that pays a sell's notional without     *)
(* taking the commission off                                               *)
account_apply_fill_gross_proceeds(s, fill, settlement_days) ==
  LET r == record_apply_fill(s.positions[fill.symbol], fill)
      notional == fill.price * fill.quantity
      total_cost == notional + fill.commission
      proceeds == notional
      s1 == [s EXCEPT !.positions[fill.symbol] = r.rec]
      s2 == IF fill.side = "buy"
            THEN [s1 EXCEPT !.cash = @ - total_cost]
            ELSE IF settlement_days > 0
                 THEN [s1 EXCEPT
                         !.settlement_queue =
                            Append(@, [amount |-> proceeds,
                                       release_time |-> fill.timestamp
                                                        + settlement_days * TicksPerDay]),
                         !.unsettled_cash = @ + proceeds]
                 ELSE [s1 EXCEPT !.cash = @ + proceeds]
  IN  [s |-> s2, realized |-> r.realized]

account_apply_fill(s, fill, settlement_days) ==
  LET r == record_apply_fill(s.positions[fill.symbol], fill)
      notional == fill.price * fill.quantity
      total_cost == notional + fill.commission
      proceeds == notional - fill.commission
      s1 == [s EXCEPT !.positions[fill.symbol] = r.rec]
      s2 == IF fill.side = "buy"
            THEN [s1 EXCEPT !.cash = @ - total_cost]
            ELSE IF settlement_days > 0
                 THEN [s1 EXCEPT
                         !.settlement_queue =
                            Append(@, [amount |-> proceeds,
                                       release_time |-> fill.timestamp
                                                        + settlement_days * TicksPerDay]),
                         !.unsettled_cash = @ + proceeds]
                 ELSE [s1 EXCEPT !.cash = @ + proceeds]
  IN  [s |-> s2, realized |-> r.realized]

RECURSIVE SumAmounts(_)
SumAmounts(q) == IF q = <<>> THEN 0 ELSE Head(q).amount + SumAmounts(Tail(q))

(* A variant of process_settlement that keeps an entry on its release time *)
process_settlement_late(s, current_time) ==
  LET due == SelectSeq(s.settlement_queue, LAMBDA e : current_time > e.release_time)
      remaining_queue == SelectSeq(s.settlement_queue,
                                   LAMBDA e : ~(current_time > e.release_time))
  IN  [s EXCEPT !.unsettled_cash = @ - SumAmounts(due),
                !.cash = @ + SumAmounts(due),
                !.settlement_queue = remaining_queue]

(* A variant of process_settlement that releases the cash and leaves       *)
(* unsettled_cash as it was                                                *)
process_settlement_keeps_unsettled(s, current_time) ==
  LET due == SelectSeq(s.settlement_queue, LAMBDA e : current_time >= e.release_time)
      remaining_queue == SelectSeq(s.settlement_queue,
                                   LAMBDA e : ~(current_time >= e.release_time))
  IN  [s EXCEPT !.cash = @ + SumAmounts(due),
                !.settlement_queue = remaining_queue]

process_settlement(s, current_time) ==
  LET due == SelectSeq(s.settlement_queue, LAMBDA e : current_time >= e.release_time)
      remaining_queue == SelectSeq(s.settlement_queue,
                                   LAMBDA e : ~(current_time >= e.release_time))
  IN  [s EXCEPT !.unsettled_cash = @ - SumAmounts(due),
                !.cash = @ + SumAmounts(due),
                !.settlement_queue = remaining_queue]

(* financing.py.  An annual rate is a whole percent.  The 17:00 New York   *)
(* roll is tick RollTick of a day; day 0 is a Monday.                       *)
RollTick == 1

daily_swap(notional, annual_rate) == (notional * annual_rate) \div 36500

swap_applicable(timestamp) == timestamp % TicksPerDay >= RollTick

swap_multiplier_for_weekday(timestamp) == IF Date(timestamp) % 7 = 2 THEN 3 ELSE 1

(* A variant of swapped_today that forgets the swap of the day *)
swapped_today_forgotten(last_swap_time, current_time) == FALSE

(* `if self.last_swap_time and self.last_swap_time.date() == current_time.date()` *)
swapped_today(last_swap_time, current_time) ==
  last_swap_time # None /\ Date(last_swap_time) = Date(current_time)

(* AccountState.apply_daily_swap.  swap_rates and marks map every symbol   *)
(* to a number, or to None where the dict has no key for it.               *)
apply_daily_swap(s, current_time, swap_rates, marks) ==
  LET charged == {sym \in Symbols : /\ net_quantity(s.positions[sym]) # 0
                                    /\ swap_rates[sym] # None
                                    /\ marks[sym] # None}
      cost == [sym \in Symbols |->
                 IF sym \in charged
                 THEN daily_swap(Abs(net_quantity(s.positions[sym])) * marks[sym],
                                 swap_rates[sym])
                        * swap_multiplier_for_weekday(current_time)
                 ELSE 0]
      signed == [sym \in Symbols |->
                   IF net_quantity(s.positions[sym]) > 0 THEN 0 - cost[sym] ELSE cost[sym]]
  IN  IF ~swap_applicable(current_time) THEN s
      ELSE IF swapped_today(s.last_swap_time, current_time) THEN s
      ELSE [s EXCEPT !.cash = @ + SumOver(signed, Symbols),
                     !.positions = [sym \in Symbols |->
                                      [@[sym] EXCEPT !.realized_pnl = @ + signed[sym]]],
                     !.last_swap_time = current_time]

(* A variant of to_portfolio_state whose equity adds the absolute value of *)
(* every position *)
to_portfolio_state_gross(s, mark, timestamp) ==
  LET pos == [sym \in Symbols |->
                [quantity |-> net_quantity(s.positions[sym]),
                 realized_pnl |-> s.positions[sym].realized_pnl,
                 current_price |-> mark]]
      mark_notional == [sym \in Symbols |-> Abs(pos[sym].quantity * mark)]
  IN  [cash |-> s.cash,
       unsettled_cash |-> s.unsettled_cash,
       positions |-> pos,
       day_trades_remaining |-> s.day_trades_remaining,
       timestamp |-> timestamp,
       equity |-> s.cash + s.unsettled_cash + SumOver(mark_notional, Symbols)]

(* to_portfolio_state with marks = dict.fromkeys(positions, mark): every   *)
(* position is marked at the same price, whatever its symbol.              *)
to_portfolio_state(s, mark, timestamp) ==
  LET pos == [sym \in Symbols |->
                [quantity |-> net_quantity(s.positions[sym]),
                 realized_pnl |-> s.positions[sym].realized_pnl,
                 current_price |-> mark]]
      mark_notional == [sym \in Symbols |-> pos[sym].quantity * mark]
  IN  [cash |-> s.cash,
       unsettled_cash |-> s.unsettled_cash,
       positions |-> pos,
       day_trades_remaining |-> s.day_trades_remaining,
       timestamp |-> timestamp,
       equity |-> s.cash + s.unsettled_cash + SumOver(mark_notional, Symbols)]

(* liq.core Position.market_value *)
market_value(p) == p.quantity * p.current_price

gross_exposure(portfolio) ==
  SumOver([sym \in Symbols |-> Abs(market_value(portfolio.positions[sym]))], Symbols)

-----------------------------------------------------------------------------
(* risk_caps.py.  cap_pct and floor_pct are whole percents, None when unset *)

enforce_net_position_cap(net_exposure, equity, cap_pct) ==
  IF cap_pct = None THEN TRUE
  ELSE IF equity <= 0 THEN FALSE
  ELSE Abs(net_exposure) * 100 <= cap_pct * equity

enforce_pyramiding_limit(current_layers, max_layers) ==
  IF max_layers = None THEN TRUE ELSE current_layers < max_layers

enforce_equity_floor(equity, floor_pct, starting_equity) ==
  IF floor_pct = None THEN TRUE ELSE equity * 100 >= floor_pct * starting_equity

(* A variant of enforce_frequency_cap that lets one trade more through *)
enforce_frequency_cap_inclusive(trades_today, cap) ==
  IF cap = None THEN TRUE ELSE trades_today <= cap

enforce_frequency_cap(trades_today, cap) ==
  IF cap = None THEN TRUE ELSE trades_today < cap

-----------------------------------------------------------------------------
(* constraints.py.  Each check yields "" when it passes and otherwise the  *)
(* leading words of the ConstraintViolation message it raises.             *)

KillSwitchReason == "Kill switch engaged; exposure-increasing orders blocked"

(* A variant of check_kill_switch that lets every order pass *)
check_kill_switch_off(kill_switch_engaged, order) == ""

check_kill_switch(kill_switch_engaged, order) ==
  IF kill_switch_engaged /\ order.side = "buy" THEN KillSwitchReason ELSE ""

check_position_limit(order, portfolio, max_position_pct, mark_price) ==
  IF order.side = "sell" THEN ""
  ELSE IF portfolio.equity <= 0 THEN "Cannot trade with non-positive equity"
  ELSE IF order.quantity * mark_price * 100 > max_position_pct * portfolio.equity
       THEN "Position limit exceeded"
       ELSE ""

(* A variant of check_buying_power that asks for the commission too; the   *)
(* fee is taken as one unit per share                                      *)
check_buying_power_with_fee(order, portfolio, mark_price) ==
  IF order.side = "sell" THEN ""
  ELSE IF order.quantity * (mark_price + 1) > portfolio.cash + portfolio.unsettled_cash
       THEN "Insufficient buying power"
       ELSE ""

check_buying_power(order, portfolio, mark_price) ==
  IF order.side = "sell" THEN ""
  ELSE IF order.quantity * mark_price > portfolio.cash + portfolio.unsettled_cash
       THEN "Insufficient buying power"
       ELSE ""

check_margin(order, portfolio, mark_price, initial_margin_rate) ==
  IF order.side = "sell" THEN ""
  ELSE IF order.quantity * mark_price * initial_margin_rate > portfolio.equity * 100
       THEN "Margin requirement exceeds equity"
       ELSE ""

check_gross_leverage(order, portfolio, mark_price, max_gross_leverage) ==
  IF portfolio.equity <= 0 THEN "Cannot trade with non-positive equity"
  ELSE IF (gross_exposure(portfolio) + order.quantity * mark_price) * 100
             > max_gross_leverage * portfolio.equity
       THEN "Gross leverage exceeded"
       ELSE ""

check_short_permission(order, portfolio, short_enabled, locate_required) ==
  LET pre_qty == portfolio.positions[order.symbol].quantity IN
  IF short_enabled
  THEN IF locate_required /\ order.side = "sell"
          /\ pre_qty - order.quantity < 0 /\ ~order.locate
       THEN "Locate required for short selling"
       ELSE ""
  ELSE IF order.side = "sell" /\ order.quantity > pre_qty
       THEN "Shorting not permitted"
       ELSE ""

(* A variant of check_pdt that lets every order pass *)
check_pdt_lets_pass(portfolio, is_day_trade) == ""

check_pdt(portfolio, is_day_trade) ==
  IF portfolio.day_trades_remaining = None THEN ""
  ELSE IF is_day_trade /\ portfolio.day_trades_remaining <= 0
       THEN "PDT limit exceeded"
       ELSE ""

(* The first non-empty reason of a sequence of check results, "" if none *)
RECURSIVE FirstFailure(_)
FirstFailure(rs) ==
  IF rs = <<>> THEN "" ELSE IF Head(rs) # "" THEN Head(rs) ELSE FirstFailure(Tail(rs))

-----------------------------------------------------------------------------
(* models/fee.py, models/slippage.py, models/spread.py, providers.py *)

fee_calculate(c, order, fill_price, is_maker) ==
  IF c.fee_model = "TieredMakerTaker"
  THEN (order.quantity * fill_price * (IF is_maker THEN c.maker_bps ELSE c.taker_bps))
         \div 10000
  ELSE IF c.fee_model = "PerShare"
  THEN IF c.min_per_order # None
       THEN Max(c.per_share * order.quantity, c.min_per_order)
       ELSE c.per_share * order.quantity
  ELSE 0

(* The process-wide `random` module: seeding fixes the sequence, every     *)
(* draw advances it.  A draw is a function of the seed and of the number   *)
(* of draws made since the seeding.                                        *)
random_seed(seed) == [seed |-> seed, n |-> 0]
random_value(rng) == (7 * rng.seed + 3 * rng.n) % 10
random_next(rng) == [rng EXCEPT !.n = @ + 1]

(* slippage_model.calculate: the offset, and whether it drew from the RNG. *)
(* "Random" is the RNG-calling model the tests install on the simulator.   *)
slippage_calculate(c, order, bar, rng) ==
  IF c.slippage_model = "VolumeWeighted"
  THEN IF bar.volume > 0
       THEN ((bar.high + bar.low)
               * (c.base_bps * bar.volume
                    + c.volume_impact * Min(order.quantity, bar.volume)))
              \div (20000 * bar.volume)
       ELSE ((bar.high + bar.low) * c.base_bps) \div 20000
  ELSE IF c.slippage_model = "PFOF"
  THEN ((bar.high + bar.low) * c.adverse_bps) \div 20000
  ELSE IF c.slippage_model = "SpreadBased"
  THEN (bar.high - bar.low) \div 2
  ELSE random_value(rng)

slippage_draws(c) == c.slippage_model = "Random"

-----------------------------------------------------------------------------
(* brackets.py.  An optional order is <<>> or <<order>>.  A leg gets a     *)
(* client_order_id of its own; it is written as minus the parent's id.     *)

OppositeSide(side) == IF side = "buy" THEN "sell" ELSE "buy"

BracketLeg(entry_order, order_type, limit_price, stop_price) ==
  [client_order_id |-> 0 - entry_order.client_order_id,
   symbol |-> entry_order.symbol,
   side |-> OppositeSide(entry_order.side),
   order_type |-> order_type,
   quantity |-> entry_order.quantity,
   limit_price |-> limit_price,
   stop_price |-> stop_price,
   time_in_force |-> entry_order.time_in_force,
   timestamp |-> entry_order.timestamp,
   sl |-> None, tp |-> None, locate |-> FALSE]

create_brackets(entry_fill_price, entry_order) ==
  [stop_loss |-> IF entry_order.sl # None
                 THEN <<BracketLeg(entry_order, "STOP", None, entry_order.sl)>>
                 ELSE <<>>,
   take_profit |-> IF entry_order.tp # None
                   THEN <<BracketLeg(entry_order, "LIMIT", entry_order.tp, None)>>
                   ELSE <<>>,
   parent_id |-> entry_order.client_order_id]

sl_trigger(bracket, bar_high, bar_low) ==
  /\ bracket.stop_loss # <<>>
  /\ \/ bracket.stop_loss[1].side = "sell" /\ bar_low <= bracket.stop_loss[1].stop_price
     \/ bracket.stop_loss[1].side = "buy" /\ bar_high >= bracket.stop_loss[1].stop_price

tp_trigger(bracket, bar_high, bar_low) ==
  /\ bracket.take_profit # <<>>
  /\ \/ bracket.take_profit[1].side = "sell"
          /\ bar_high >= bracket.take_profit[1].limit_price
     \/ bracket.take_profit[1].side = "buy"
          /\ bar_low <= bracket.take_profit[1].limit_price

(* A variant of process_brackets in which the take-profit leg wins *)
process_brackets_take_profit_first(bracket, bar_high, bar_low) ==
  IF tp_trigger(bracket, bar_high, bar_low) THEN bracket.take_profit
  ELSE IF sl_trigger(bracket, bar_high, bar_low) THEN bracket.stop_loss
  ELSE <<>>

(* The first component of the pair process_brackets returns *)
process_brackets(bracket, bar_high, bar_low) ==
  IF sl_trigger(bracket, bar_high, bar_low) THEN bracket.stop_loss
  ELSE IF tp_trigger(bracket, bar_high, bar_low) THEN bracket.take_profit
  ELSE <<>>

-----------------------------------------------------------------------------
(* simulator.py: Simulator.  A simulator record holds the Simulator's      *)
(* fields, the account it owns, the locals of its current run, the run's   *)
(* position `pc`, and `rng`, the state of the process-wide generator as    *)
(* this simulator last left it.                                            *)

PdtDefault == 3

(* Simulator(provider_config, config): the fields after __post_init__ *)
Construct(c) ==
  LET init_equity == c.initial_capital IN
  [cash |-> c.initial_capital,
   unsettled_cash |-> 0,
   positions |-> [sym \in Symbols |-> EmptyRecord],
   settlement_queue |-> <<>>,
   day_trades_remaining |-> IF c.pdt_enabled THEN PdtDefault ELSE None,
   last_swap_time |-> None,
   peak_equity |-> init_equity,
   daily_start_equity |-> init_equity,
   starting_equity |-> init_equity,
   kill_switch_engaged |-> FALSE,
   current_day |-> None,
   active_brackets |-> <<>>,
   trades_today |-> 0,
   rng |-> random_seed(c.random_seed),
   fills |-> <<>>,
   equity_curve |-> <<>>,
   portfolio_states |-> <<>>,
   rejected_orders |-> <<>>,
   pending |-> <<>>,
   active_orders |-> <<>>,
   executed_orders |-> {},
   became_eligible |-> {},
   bar_idx |-> 0,
   k |-> 0,
   j |-> 0,
   remaining_brackets |-> <<>>,
   pc |-> "idle"]

(* A variant of origin_idx that puts an order later than every bar past    *)
(* the last bar                                                            *)
origin_idx_past_the_end(order, bs) ==
  LET hits == {i \in 1..Len(bs) : bs[i].timestamp >= order.timestamp} IN
  IF hits = {} THEN Len(bs)
  ELSE (CHOOSE i \in hits : \A j \in hits : i <= j) - 1

(* The first-eligible bar index of run's pre-sort: the first idx (from 0)  *)
(* with bar.timestamp >= order.timestamp, and 0 when there is none.        *)
origin_idx(order, bs) ==
  LET hits == {i \in 1..Len(bs) : bs[i].timestamp >= order.timestamp} IN
  IF hits = {} THEN 0
  ELSE (CHOOSE i \in hits : \A j \in hits : i <= j) - 1

(* sorted(pending, key=origin): a stable sort *)
RECURSIVE SortedByOrigin(_, _, _)
SortedByOrigin(p, from, to) ==
  IF from > to THEN <<>>
  ELSE SelectSeq(p, LAMBDA e : e.origin = from) \o SortedByOrigin(p, from + 1, to)

(* run(): the statements before the loop over the bars *)
BeginRun(s, os, bs) ==
  LET p == [i \in 1..Len(os) |-> [origin |-> origin_idx(os[i], bs), order |-> os[i]]] IN
  [s EXCEPT !.fills = <<>>,
            !.equity_curve = <<>>,
            !.portfolio_states = <<>>,
            !.rejected_orders = <<>>,
            !.pending = SortedByOrigin(p, 0, Len(bs)),
            !.active_orders = <<>>,
            !.executed_orders = {},
            !.became_eligible = {},
            !.bar_idx = 0,
            !.k = 0,
            !.j = 0,
            !.remaining_brackets = <<>>,
            !.pc = IF Len(bs) = 0 THEN "done" ELSE "bar"]

(* A variant of delay_pending that holds an order one bar longer *)
delay_pending_one_more(bar_idx, origin, min_delay) == bar_idx - origin <= min_delay

(* `if bar_idx - origin_idx < min_delay: break` *)
delay_pending(bar_idx, origin, min_delay) == bar_idx - origin < min_delay

(* The activation loop of one bar.  `raised` is set when                   *)
(* assert_no_lookahead raises; the order was then already popped.          *)
RECURSIVE Activate(_, _, _, _, _, _)
Activate(pending, active, became, bar_idx, bar_ts, min_delay) ==
  IF pending = <<>> \/ ~(Head(pending).origin <= bar_idx)
  THEN [pending |-> pending, active |-> active, became |-> became, raised |-> FALSE]
  ELSE IF delay_pending(bar_idx, Head(pending).origin, min_delay)
  THEN [pending |-> pending, active |-> active, became |-> became, raised |-> FALSE]
  ELSE IF ~no_lookahead(Head(pending).order.timestamp, bar_ts)
  THEN [pending |-> Tail(pending), active |-> active, became |-> became, raised |-> TRUE]
  ELSE Activate(Tail(pending), Append(active, Head(pending).order),
                became \cup {Head(pending).order.client_order_id},
                bar_idx, bar_ts, min_delay)

(* A variant of Advance that leaves the executed orders among the active   *)
(* ones                                                                    *)
Advance_keeps_executed(s) ==
  IF s.k <= Len(s.active_orders) THEN [s EXCEPT !.pc = "orders"]
  ELSE [s EXCEPT !.j = 1,
                 !.remaining_brackets = <<>>,
                 !.pc = IF Len(s.active_brackets) >= 1 THEN "brackets" ELSE "close"]

(* After the order at position k - 1: the next order of the bar, or, past *)
(* the last one, `remove executed` and the start of the bracket loop.      *)
Advance(s) ==
  IF s.k <= Len(s.active_orders) THEN [s EXCEPT !.pc = "orders"]
  ELSE [s EXCEPT !.active_orders =
                    SelectSeq(@, LAMBDA o : o.client_order_id \notin s.executed_orders),
                 !.j = 1,
                 !.remaining_brackets = <<>>,
                 !.pc = IF Len(s.active_brackets) >= 1 THEN "brackets" ELSE "close"]

(* A variant of kill_switch_update that also engages at the threshold *)
kill_switch_update_at_threshold(engaged, current_equity, peak_equity, daily_start_equity, c) ==
  \/ engaged
  \/ /\ c.max_drawdown_pct # None
     /\ current_equity * 100 <= peak_equity * (100 - c.max_drawdown_pct)
  \/ /\ c.max_daily_loss_pct # None
     /\ current_equity * 100 <= daily_start_equity * (100 - c.max_daily_loss_pct)

(* The kill-switch re-evaluation of one bar *)
kill_switch_update(engaged, current_equity, peak_equity, daily_start_equity, c) ==
  \/ engaged
  \/ /\ c.max_drawdown_pct # None
     /\ current_equity * 100 < peak_equity * (100 - c.max_drawdown_pct)
  \/ /\ c.max_daily_loss_pct # None
     /\ current_equity * 100 < daily_start_equity * (100 - c.max_daily_loss_pct)

(* A variant of peak_update that follows the equity down *)
peak_update_last(peak_equity, current_equity) == current_equity

peak_update(peak_equity, current_equity) ==
  IF current_equity > peak_equity THEN current_equity ELSE peak_equity

(* A variant of equity_halts that lets a run go on with zero equity *)
equity_halts_below_zero(current_equity) == current_equity < 0

(* `if current_equity <= 0`: the hard stop *)
equity_halts(current_equity) == current_equity <= 0

(* A variant of swap_bar that leaves the swap of the bar out *)
swap_bar_left_out(s, bar, swap_rates) == s

(* `if swap_rates:` and the call of apply_daily_swap at the bar's close    *)
(* price                                                                   *)
swap_bar(s, bar, swap_rates) ==
  IF \E sym \in Symbols : swap_rates[sym] # None
  THEN apply_daily_swap(s, bar.timestamp, swap_rates, [sym \in Symbols |-> bar.close])
  ELSE s

(* A variant of daily_reset that takes the snapshot after the bar's        *)
(* settlement and swap                                                     *)
daily_reset_after_swap(s, bar, c) ==
  LET swapped == swap_bar(process_settlement(s, bar.timestamp), bar, c.swap_rates) IN
  IF s.current_day = None \/ Date(bar.timestamp) # Date(s.current_day)
  THEN [s EXCEPT !.daily_start_equity =
                    to_portfolio_state(swapped, bar.open, bar.timestamp).equity,
                 !.current_day = bar.timestamp,
                 !.trades_today = 0]
  ELSE s

(* `# daily reset` at the head of the loop body *)
daily_reset(s, bar, c) ==
  IF s.current_day = None \/ Date(bar.timestamp) # Date(s.current_day)
  THEN [s EXCEPT !.daily_start_equity =
                    to_portfolio_state(s, bar.open, bar.timestamp).equity,
                 !.current_day = bar.timestamp,
                 !.trades_today = 0]
  ELSE s

(* The head of the loop body for one bar: daily reset, settlement, swap,   *)
(* the open-price snapshot, the equity floor, peak and kill-switch,        *)
(* activation                                                              *)
OpenBar(s, bar, c) ==
  LET s1 == daily_reset(s, bar, c)
      s2 == swap_bar(process_settlement(s1, bar.timestamp), bar, c.swap_rates)
      snapshot_open == to_portfolio_state(s2, bar.open, bar.timestamp)
      current_equity == snapshot_open.equity
      peak == peak_update(s2.peak_equity, current_equity)
      a == Activate(s2.pending, s2.active_orders, s2.became_eligible,
                    s2.bar_idx, bar.timestamp, c.min_delay)
      s3 == [s2 EXCEPT !.peak_equity = peak,
                       !.kill_switch_engaged =
                          kill_switch_update(@, current_equity, peak,
                                             s2.daily_start_equity, c),
                       !.pending = a.pending,
                       !.active_orders = a.active,
                       !.became_eligible = a.became,
                       !.executed_orders = {},
                       !.k = 1]
  IN  IF equity_halts(current_equity)
      THEN [s2 EXCEPT !.equity_curve = Append(@, <<bar.timestamp, 0>>),
                      !.portfolio_states = Append(@, [snapshot_open EXCEPT !.equity = 0]),
                      !.pc = "halted"]
      ELSE IF a.raised THEN [s3 EXCEPT !.pc = "aborted"]
      ELSE Advance(s3)

(* A variant of the pipeline that checks buying power before the position  *)
(* limit *)
RejectReason_buying_power_first(s, order, portfolio_snapshot, mark, is_day_trade, c) ==
  FirstFailure(<<
    IF enforce_net_position_cap(gross_exposure(portfolio_snapshot),
                                portfolio_snapshot.equity, c.net_position_cap_pct)
    THEN "" ELSE "Net position cap",
    IF enforce_equity_floor(portfolio_snapshot.equity, c.equity_floor_pct,
                            s.starting_equity)
    THEN "" ELSE "Equity floor breached",
    IF enforce_frequency_cap(s.trades_today, c.frequency_cap_per_day)
    THEN "" ELSE "Frequency cap reached",
    IF enforce_pyramiding_limit(1, c.pyramiding_layers)
    THEN "" ELSE "Pyramiding cap",
    check_kill_switch(s.kill_switch_engaged, order),
    check_buying_power(order, portfolio_snapshot, mark),
    check_position_limit(order, portfolio_snapshot, c.max_position_pct, mark),
    check_margin(order, portfolio_snapshot, mark, c.initial_margin_rate),
    check_gross_leverage(order, portfolio_snapshot, mark, c.max_gross_leverage),
    check_short_permission(order, portfolio_snapshot, c.short_enabled,
                           c.locate_required),
    check_pdt(portfolio_snapshot, is_day_trade)>>)

(* The constraint pipeline for one order: "" or the first failing reason *)
RejectReason(s, order, portfolio_snapshot, mark, is_day_trade, c) ==
  FirstFailure(<<
    IF enforce_net_position_cap(gross_exposure(portfolio_snapshot),
                                portfolio_snapshot.equity, c.net_position_cap_pct)
    THEN "" ELSE "Net position cap",
    IF enforce_equity_floor(portfolio_snapshot.equity, c.equity_floor_pct,
                            s.starting_equity)
    THEN "" ELSE "Equity floor breached",
    IF enforce_frequency_cap(s.trades_today, c.frequency_cap_per_day)
    THEN "" ELSE "Frequency cap reached",
    IF enforce_pyramiding_limit(1, c.pyramiding_layers)
    THEN "" ELSE "Pyramiding cap",
    check_kill_switch(s.kill_switch_engaged, order),
    check_position_limit(order, portfolio_snapshot, c.max_position_pct, mark),
    check_buying_power(order, portfolio_snapshot, mark),
    check_margin(order, portfolio_snapshot, mark, c.initial_margin_rate),
    check_gross_leverage(order, portfolio_snapshot, mark, c.max_gross_leverage),
    check_short_permission(order, portfolio_snapshot, c.short_enabled,
                           c.locate_required),
    check_pdt(portfolio_snapshot, is_day_trade)>>)

(* A variant of order_snapshot whose cash is the cash from before the      *)
(* bar's buys were paid                                                    *)
order_snapshot_before_fills(s, bar) ==
  LET paid == SumOver([i \in 1..Len(s.fills) |->
                         IF s.fills[i].timestamp = bar.timestamp /\ s.fills[i].side = "buy"
                         THEN s.fills[i].quantity * s.fills[i].price ELSE 0],
                      1..Len(s.fills))
  IN  [to_portfolio_state(s, bar.open, bar.timestamp) EXCEPT !.cash = @ + paid]

(* `# Fresh snapshot using current account state (after any earlier fills  *)
(* this bar)`                                                              *)
order_snapshot(s, bar) == to_portfolio_state(s, bar.open, bar.timestamp)

(* PDT: would this order close out the position on the day it was placed *)
day_trade(s, order, bar) ==
  LET pre_qty == net_quantity(s.positions[order.symbol]) IN
  /\ Date(order.timestamp) = Date(bar.timestamp)
  /\ \/ pre_qty > 0 /\ order.side = "sell" /\ pre_qty - order.quantity <= 0
     \/ pre_qty < 0 /\ order.side = "buy" /\ pre_qty + order.quantity >= 0

maker(order, bar) ==
  /\ order.order_type = "LIMIT"
  /\ \/ order.side = "buy" /\ order.limit_price # None /\ order.limit_price < bar.open
     \/ order.side = "sell" /\ order.limit_price # None /\ order.limit_price > bar.open

(* A variant of ProcessOrder that counts a rejected order as a trade of    *)
(* the day *)
ProcessOrder_counts_rejection(s, bar, c, u) ==
  LET order == s.active_orders[s.k]
      portfolio_snapshot == to_portfolio_state(s, bar.open, bar.timestamp)
      is_day_trade == day_trade(s, order, bar)
      reason == RejectReason(s, order, portfolio_snapshot, bar.open, is_day_trade, c)
      slippage == slippage_calculate(c, order, bar, s.rng)
      commission == fee_calculate(c, order, bar.open, maker(order, bar))
      fill == match_order(order, bar, slippage, commission, bar.timestamp, u)
      s1 == [s EXCEPT !.rng = IF slippage_draws(c) THEN random_next(@) ELSE @,
                      !.k = @ + 1]
      s2 == [s1 EXCEPT !.executed_orders = @ \cup {order.client_order_id},
                       !.day_trades_remaining =
                          IF is_day_trade /\ @ # None THEN Max(0, @ - 1) ELSE @,
                       !.trades_today = @ + 1]
      applied == account_apply_fill(s2, fill[1], c.settlement_days)
      bracket == create_brackets(fill[1].price, order)
      s3 == [applied.s EXCEPT
               !.fills = Append(@, [fill[1] EXCEPT !.realized_pnl = applied.realized]),
               !.active_brackets =
                  IF bracket.stop_loss # <<>> \/ bracket.take_profit # <<>>
                  THEN Append(@, bracket) ELSE @]
  IN  IF reason # ""
      THEN Advance([s EXCEPT !.rejected_orders =
                                Append(@, [order |-> order, reason |-> reason,
                                           timestamp |-> bar.timestamp]),
                             !.trades_today = @ + 1,
                             !.k = @ + 1])
      ELSE IF fill = <<>> THEN Advance(s1)
      ELSE Advance(s3)

(* The body of `for order in list(active_orders)` for the order at k;      *)
(* u is the value uuid4() returns should the order fill.                   *)
ProcessOrder(s, bar, c, u) ==
  LET order == s.active_orders[s.k]
      portfolio_snapshot == order_snapshot(s, bar)
      is_day_trade == day_trade(s, order, bar)
      reason == RejectReason(s, order, portfolio_snapshot, bar.open, is_day_trade, c)
      slippage == slippage_calculate(c, order, bar, s.rng)
      commission == fee_calculate(c, order, bar.open, maker(order, bar))
      fill == match_order(order, bar, slippage, commission, bar.timestamp, u)
      s1 == [s EXCEPT !.rng = IF slippage_draws(c) THEN random_next(@) ELSE @,
                      !.k = @ + 1]
      s2 == [s1 EXCEPT !.executed_orders = @ \cup {order.client_order_id},
                       !.day_trades_remaining =
                          IF is_day_trade /\ @ # None THEN Max(0, @ - 1) ELSE @,
                       !.trades_today = @ + 1]
      applied == account_apply_fill(s2, fill[1], c.settlement_days)
      bracket == create_brackets(fill[1].price, order)
      s3 == [applied.s EXCEPT
               !.fills = Append(@, [fill[1] EXCEPT !.realized_pnl = applied.realized]),
               !.active_brackets =
                  IF bracket.stop_loss # <<>> \/ bracket.take_profit # <<>>
                  THEN Append(@, bracket) ELSE @]
  IN  IF reason # ""
      THEN Advance([s EXCEPT !.rejected_orders =
                                Append(@, [order |-> order, reason |-> reason,
                                           timestamp |-> bar.timestamp]),
                             !.k = @ + 1])
      ELSE IF fill = <<>> THEN Advance(s1)
      ELSE Advance(s3)

(* A variant of ProcessBracket that keeps a triggered bracket among the    *)
(* remaining brackets                                                      *)
ProcessBracket_keeps_triggered(s, bar, c, u) ==
  LET bracket == s.active_brackets[s.j]
      trigger == process_brackets(bracket, bar.high, bar.low)
      slippage == slippage_calculate(c, trigger[1], bar, s.rng)
      commission == fee_calculate(c, trigger[1], bar.open, FALSE)
      fill == match_order(trigger[1], bar, slippage, commission, bar.timestamp, u)
      s1 == [s EXCEPT !.rng = IF slippage_draws(c) THEN random_next(@) ELSE @,
                      !.remaining_brackets = Append(@, bracket),
                      !.j = @ + 1]
      applied == account_apply_fill(s1, fill[1], c.settlement_days)
      s2 == [applied.s EXCEPT
               !.fills = Append(@, [fill[1] EXCEPT !.realized_pnl = applied.realized]),
               !.trades_today = @ + 1]
      s3 == IF trigger = <<>>
            THEN [s EXCEPT !.remaining_brackets = Append(@, bracket), !.j = @ + 1]
            ELSE IF fill = <<>> THEN s1 ELSE s2
  IN  [s3 EXCEPT !.pc = IF s3.j <= Len(s3.active_brackets) THEN "brackets" ELSE "close"]

(* The body of `for bracket in self.active_brackets` for the bracket at j *)
ProcessBracket(s, bar, c, u) ==
  LET bracket == s.active_brackets[s.j]
      trigger == process_brackets(bracket, bar.high, bar.low)
      slippage == slippage_calculate(c, trigger[1], bar, s.rng)
      commission == fee_calculate(c, trigger[1], bar.open, FALSE)
      fill == match_order(trigger[1], bar, slippage, commission, bar.timestamp, u)
      s1 == [s EXCEPT !.rng = IF slippage_draws(c) THEN random_next(@) ELSE @,
                      !.j = @ + 1]
      applied == account_apply_fill(s1, fill[1], c.settlement_days)
      s2 == [applied.s EXCEPT
               !.fills = Append(@, [fill[1] EXCEPT !.realized_pnl = applied.realized]),
               !.trades_today = @ + 1]
      s3 == IF trigger = <<>>
            THEN [s EXCEPT !.remaining_brackets = Append(@, bracket), !.j = @ + 1]
            ELSE IF fill = <<>> THEN s1 ELSE s2
  IN  [s3 EXCEPT !.pc = IF s3.j <= Len(s3.active_brackets) THEN "brackets" ELSE "close"]

(* A variant of CloseBar that records the portfolio but no equity point *)
CloseBar_no_point(s, bar, nbars) ==
  LET portfolio ==
        to_portfolio_state(s, bar.close, bar.timestamp)
  IN  [s EXCEPT !.active_brackets = s.remaining_brackets,
                !.active_orders =
                   SelectSeq(@, LAMBDA o :
                       ~(o.time_in_force = "DAY"
                         /\ o.client_order_id \notin s.executed_orders
                         /\ o.client_order_id \in s.became_eligible)),
                !.portfolio_states = Append(@, portfolio),
                !.bar_idx = @ + 1,
                !.pc = IF s.bar_idx + 1 < nbars THEN "bar" ELSE "done"]

(* A variant of CloseBar that lets DAY orders live on like GTC orders *)
CloseBar_keeps_day_orders(s, bar, nbars) ==
  LET portfolio ==
        to_portfolio_state(s, bar.close, bar.timestamp)
  IN  [s EXCEPT !.active_brackets = s.remaining_brackets,
                !.equity_curve = Append(@, <<bar.timestamp, portfolio.equity>>),
                !.portfolio_states = Append(@, portfolio),
                !.bar_idx = @ + 1,
                !.pc = IF s.bar_idx + 1 < nbars THEN "bar" ELSE "done"]

(* A variant of CloseBar that also expires IOC and FOK orders *)
CloseBar_expires_ioc_fok(s, bar, nbars) ==
  LET portfolio ==
        to_portfolio_state(s, bar.close, bar.timestamp)
  IN  [s EXCEPT !.active_brackets = s.remaining_brackets,
                !.active_orders =
                   SelectSeq(@, LAMBDA o :
                       ~(o.time_in_force \in {"DAY", "IOC", "FOK"}
                         /\ o.client_order_id \notin s.executed_orders
                         /\ o.client_order_id \in s.became_eligible)),
                !.equity_curve = Append(@, <<bar.timestamp, portfolio.equity>>),
                !.portfolio_states = Append(@, portfolio),
                !.bar_idx = @ + 1,
                !.pc = IF s.bar_idx + 1 < nbars THEN "bar" ELSE "done"]

(* The tail of the loop body: the surviving brackets, DAY expiry and the   *)
(* close-price snapshot of the bar                                         *)
CloseBar(s, bar, nbars) ==
  LET portfolio ==
        to_portfolio_state(s, bar.close, bar.timestamp)
  IN  [s EXCEPT !.active_brackets = s.remaining_brackets,
                !.active_orders =
                   SelectSeq(@, LAMBDA o :
                       ~(o.time_in_force = "DAY"
                         /\ o.client_order_id \notin s.executed_orders
                         /\ o.client_order_id \in s.became_eligible)),
                !.equity_curve = Append(@, <<bar.timestamp, portfolio.equity>>),
                !.portfolio_states = Append(@, portfolio),
                !.bar_idx = @ + 1,
                !.pc = IF s.bar_idx + 1 < nbars THEN "bar" ELSE "done"]

-----------------------------------------------------------------------------
(* Inputs *)

(* No symbol has a swap rate: run is given no swap_rates *)
NoSwapRates == [sym \in Symbols |-> None]

(* config.py defaults, with the delay, position limit and capital the     *)
(* scenarios need; min_delay and swap_rates are what run is called with    *)
BaseCfg ==
  [initial_capital |-> 400, min_delay |-> 0, swap_rates |-> NoSwapRates,
   random_seed |-> 1,
   max_daily_loss_pct |-> None, max_drawdown_pct |-> None,
   max_position_pct |-> 100, max_gross_leverage |-> 200,
   net_position_cap_pct |-> None, pyramiding_layers |-> None,
   equity_floor_pct |-> None, frequency_cap_per_day |-> None,
   fee_model |-> "ZeroCommission", maker_bps |-> 0, taker_bps |-> 0,
   per_share |-> 0, min_per_order |-> None,
   slippage_model |-> "VolumeWeighted", base_bps |-> 0, volume_impact |-> 0,
   adverse_bps |-> 0,
   initial_margin_rate |-> 100, short_enabled |-> FALSE, locate_required |-> FALSE,
   settlement_days |-> 0, pdt_enabled |-> FALSE]

Configs ==
  { [BaseCfg EXCEPT !.min_delay = 1, !.fee_model = "PerShare", !.per_share = 10],
    [BaseCfg EXCEPT !.initial_capital = 200, !.short_enabled = TRUE],
    [BaseCfg EXCEPT !.max_drawdown_pct = 25, !.slippage_model = "SpreadBased"],
    [BaseCfg EXCEPT !.max_daily_loss_pct = 25, !.frequency_cap_per_day = 1] }

BarShapes ==
  { [symbol |-> "AAPL", open |-> 100, high |-> 100, low |-> 100, close |-> 100, volume |-> 2],
    [symbol |-> "AAPL", open |-> 300, high |-> 300, low |-> 300, close |-> 300, volume |-> 2],
    [symbol |-> "GOOGL", open |-> 200, high |-> 300, low |-> 100, close |-> 300, volume |-> 2] }

MakeBar(shape, ts) ==
  [symbol |-> shape.symbol, timestamp |-> ts, open |-> shape.open, high |-> shape.high,
   low |-> shape.low, close |-> shape.close, volume |-> shape.volume]

(* A bar whose prices are not drawn yet *)
BlankBar(ts) ==
  [symbol |-> "", timestamp |-> ts, open |-> 0, high |-> 0, low |-> 0, close |-> 0,
   volume |-> 0]

(* Time-ordered bar timestamps: from 0, every bar 1 tick or every bar 2    *)
(* ticks after the one before *)
BarTimes == {[i \in 1..NumBars |-> (i - 1) * g] : g \in {1, 2}}

(* A timestamp later than every bar's *)
Late == 2 * NumBars + 1

OrderKind(side, type, qty, limit, stop, tif, sl, tp, sym) ==
  [symbol |-> sym, side |-> side, order_type |-> type, quantity |-> qty,
   limit_price |-> limit, stop_price |-> stop, time_in_force |-> tif,
   sl |-> sl, tp |-> tp, locate |-> FALSE]

MarketBuy == OrderKind("buy", "MARKET", 1, None, None, "GTC", None, None, "AAPL")
BracketBuy == OrderKind("buy", "MARKET", 2, None, None, "DAY", 100, 300, "AAPL")
MarketSell == OrderKind("sell", "MARKET", 2, None, None, "DAY", None, None, "AAPL")
StopSell == OrderKind("sell", "STOP", 1, None, 200, "GTC", None, None, "AAPL")
LimitBuy == OrderKind("buy", "LIMIT", 1, 200, None, "GTC", None, None, "GOOGL")
StopLimitBuy == OrderKind("buy", "STOP_LIMIT", 1, 200, 200, "DAY", None, None, "AAPL")

(* An order: what it is and when it was placed *)
OrderChoices ==
  { <<MarketBuy, 0>>, <<MarketBuy, Late>>, <<BracketBuy, 2>>,
    <<MarketSell, 0>>, <<StopSell, 2>>, <<LimitBuy, 0>>, <<StopLimitBuy, 0>> }

MakeOrder(kind, id, ts) ==
  [client_order_id |-> id, symbol |-> kind.symbol, side |-> kind.side,
   order_type |-> kind.order_type, quantity |-> kind.quantity,
   limit_price |-> kind.limit_price, stop_price |-> kind.stop_price,
   time_in_force |-> kind.time_in_force, timestamp |-> ts,
   sl |-> kind.sl, tp |-> kind.tp, locate |-> kind.locate]

OrderLists ==
  UNION { {[i \in 1..n |-> MakeOrder(ch[i][1], i, ch[i][2])] :
             ch \in [1..n -> OrderChoices]} :
          n \in 0..MaxOrders }

(* What uuid4() can return: the i-th value of one of two streams of the    *)
(* operating system's randomness                                           *)
Uuid4 == {<<stream, i>> : stream \in {"a", "b"}, i \in 1..(2 * MaxOrders + 1)}

(* The step-wise specification never reads a fill_id: it lets uuid4()      *)
(* return one value.  SpecReplay draws a stream for every run.             *)
StepUuid == {<<"a", 1>>}

(* A simulator that is not constructed yet *)
Unbuilt(c) == [Construct(c) EXCEPT !.pc = "unbuilt"]

-----------------------------------------------------------------------------
(* The run of one simulator, step by step.  process_rng is the process-wide*)
(* generator; a step works on it through the rng field of the record.      *)

Init ==
  /\ cfg \in Configs
  /\ orders \in OrderLists
  /\ bars \in {[i \in 1..NumBars |-> BlankBar(t[i])] : t \in BarTimes}
  /\ sim = Construct(cfg)
  /\ process_rng = random_seed(cfg.random_seed)
  /\ peer = Unbuilt(cfg)
  /\ log = <<>>

CurrentBar == bars[sim.bar_idx + 1]

Loaded == [sim EXCEPT !.rng = process_rng]

RunStart ==
  /\ sim.pc = "idle"
  /\ sim' = BeginRun(Loaded, orders, bars)
  /\ process_rng' = sim'.rng
  /\ UNCHANGED <<cfg, orders, bars, peer, log>>

BarOpen ==
  /\ sim.pc = "bar"
  /\ \E shape \in BarShapes :
       LET bar == MakeBar(shape, CurrentBar.timestamp) IN
       /\ bars' = [bars EXCEPT ![sim.bar_idx + 1] = bar]
       /\ sim' = OpenBar(Loaded, bar, cfg)
  /\ process_rng' = sim'.rng
  /\ UNCHANGED <<cfg, orders, peer, log>>

OrderStep ==
  /\ sim.pc = "orders"
  /\ \E u \in StepUuid : sim' = ProcessOrder(Loaded, CurrentBar, cfg, u)
  /\ process_rng' = sim'.rng
  /\ UNCHANGED <<cfg, orders, bars, peer, log>>

BracketStep ==
  /\ sim.pc = "brackets"
  /\ \E u \in StepUuid : sim' = ProcessBracket(Loaded, CurrentBar, cfg, u)
  /\ process_rng' = sim'.rng
  /\ UNCHANGED <<cfg, orders, bars, peer, log>>

BarClose ==
  /\ sim.pc = "close"
  /\ sim' = CloseBar(Loaded, CurrentBar, Len(bars))
  /\ process_rng' = sim'.rng
  /\ UNCHANGED <<cfg, orders, bars, peer, log>>

Next == RunStart \/ BarOpen \/ OrderStep \/ BracketStep \/ BarClose

Spec == Init /\ [][Next]_vars

-----------------------------------------------------------------------------
(* Whole calls on two simulators of one process.  sim is simulator A, peer *)
(* is simulator B; both are built from cfg and run on orders and bars.     *)
(* log holds the calls made so far, each run with what it returned.        *)

(* run(orders, bars) from the head of the next bar to the return, or to    *)
(* the exception that ends it; uu[i] is what uuid4() returns for the i-th  *)
(* fill of the run.                                                        *)
RECURSIVE RunLoop(_, _, _, _)
RunLoop(s, bs, c, uu) ==
  IF s.pc = "bar"
  THEN RunLoop(OpenBar(s, bs[s.bar_idx + 1], c), bs, c, uu)
  ELSE IF s.pc = "orders"
  THEN RunLoop(ProcessOrder(s, bs[s.bar_idx + 1], c, uu[Len(s.fills) + 1]), bs, c, uu)
  ELSE IF s.pc = "brackets"
  THEN RunLoop(ProcessBracket(s, bs[s.bar_idx + 1], c, uu[Len(s.fills) + 1]), bs, c, uu)
  ELSE IF s.pc = "close"
  THEN RunLoop(CloseBar(s, bs[s.bar_idx + 1], Len(bs)), bs, c, uu)
  ELSE s

run(s, os, bs, c, uu) == RunLoop(BeginRun(s, os, bs), bs, c, uu)

(* The SimulationResult of a run that returned; a run that raised returns  *)
(* nothing                                                                 *)
SimulationResult(s) ==
  IF s.pc = "aborted" THEN <<>>
  ELSE <<[fills |-> s.fills, equity_curve |-> s.equity_curve,
          rejected_orders |-> s.rejected_orders]>>

(* The values uuid4() returns during one run: every order fills at most    *)
(* once, and so does its bracket                                           *)
Uuid4Streams ==
  {[i \in 1..(2 * MaxOrders + 1) |-> <<stream, i>>] : stream \in {"a", "b"}}

ReplayConfigs ==
  { BaseCfg, [BaseCfg EXCEPT !.slippage_model = "Random"] }

ReplayOrders ==
  UNION { {[i \in 1..n |-> MakeOrder(kind[i], i, 0)] :
             kind \in [1..n -> {MarketBuy, BracketBuy}]} :
          n \in 0..MaxOrders }

(* One bar per tick: a first bar, and later bars that are all alike *)
ReplayBars ==
  {[i \in 1..NumBars |-> MakeBar(IF i = 1 THEN first ELSE later, i - 1)] :
     first \in BarShapes, later \in BarShapes}

ReplayInit ==
  /\ cfg \in ReplayConfigs
  /\ orders \in ReplayOrders
  /\ bars \in ReplayBars
  /\ sim = Unbuilt(cfg)
  /\ peer = Unbuilt(cfg)
  /\ process_rng = random_seed(0)
  /\ log = <<>>

Call(call, who, result) == [call |-> call, who |-> who, result |-> result]

(* Simulator(provider_config, config): __post_init__ seeds the process-wide *)
(* generator                                                                *)
ConstructA ==
  /\ Len(log) < MaxCalls
  /\ sim.pc = "unbuilt"
  /\ sim' = Construct(cfg)
  /\ process_rng' = sim'.rng
  /\ log' = Append(log, Call("construct", "A", <<>>))
  /\ UNCHANGED <<cfg, orders, bars, peer>>

ConstructB ==
  /\ Len(log) < MaxCalls
  /\ peer.pc = "unbuilt"
  /\ peer' = Construct(cfg)
  /\ process_rng' = peer'.rng
  /\ log' = Append(log, Call("construct", "B", <<>>))
  /\ UNCHANGED <<cfg, orders, bars, sim>>

RunA ==
  /\ Len(log) < MaxCalls
  /\ sim.pc # "unbuilt"
  /\ \E uu \in Uuid4Streams :
       sim' = run([sim EXCEPT !.rng = process_rng], orders, bars, cfg, uu)
  /\ process_rng' = sim'.rng
  /\ log' = Append(log, Call("run", "A", SimulationResult(sim')))
  /\ UNCHANGED <<cfg, orders, bars, peer>>

RunB ==
  /\ Len(log) < MaxCalls
  /\ peer.pc # "unbuilt"
  /\ \E uu \in Uuid4Streams :
       peer' = run([peer EXCEPT !.rng = process_rng], orders, bars, cfg, uu)
  /\ process_rng' = peer'.rng
  /\ log' = Append(log, Call("run", "B", SimulationResult(peer')))
  /\ UNCHANGED <<cfg, orders, bars, sim>>

ReplayNext == ConstructA \/ ConstructB \/ RunA \/ RunB

SpecReplay == ReplayInit /\ [][ReplayNext]_vars

-----------------------------------------------------------------------------
(* Terms the properties below are stated in *)

Last(seq) == seq[Len(seq)]

(* The input order a fill or a bracket leg belongs to: a leg carries the   *)
(* negated client_order_id of its entry order                              *)
OrderOf(client_order_id) == orders[Abs(client_order_id)]

(* The index, from 0, of the bar with this timestamp *)
BarIndexAt(ts) == (CHOOSE i \in 1..Len(bars) : bars[i].timestamp = ts) - 1

HasOrigin(o) == \E i \in 1..Len(bars) : bars[i].timestamp >= o.timestamp

(* The smallest bar index whose timestamp is >= the order's *)
Origin(o) ==
  (CHOOSE i \in 1..Len(bars) :
     /\ bars[i].timestamp >= o.timestamp
     /\ \A j \in 1..(i - 1) : bars[j].timestamp < o.timestamp) - 1

(* The first bar index at which is_order_eligible holds for the order *)
FirstEligibleBar(o) ==
  CHOOSE j \in 0..(Len(bars) + 1) :
    /\ is_order_eligible(Origin(o), j, cfg.min_delay)
    /\ \A i \in 0..(j - 1) : ~is_order_eligible(Origin(o), i, cfg.min_delay)

(* The bar with this index has gone through its activation loop *)
Activated(b) ==
  \/ sim.bar_idx > b
  \/ sim.bar_idx = b /\ sim.pc \in {"orders", "brackets", "close"}

(* The equity of the account at the open price of the current bar *)
OpenEquity == to_portfolio_state(sim, CurrentBar.open, CurrentBar.timestamp).equity

(* The run stands right behind the head of a bar's body, with an order to  *)
(* process                                                                 *)
AtFirstOrder == sim.pc = "orders" /\ sim.k = 1

(* A snapshot's cash + unsettled_cash + sum of quantity x mark *)
SnapshotValue(p) ==
  p.cash + p.unsettled_cash
  + SumOver([sym \in Symbols |->
               p.positions[sym].quantity * p.positions[sym].current_price], Symbols)

-----------------------------------------------------------------------------
(* C1, as stated: every snapshot in portfolio_states, the final snapshot   *)
(* of a halted run included, has equity = cash + unsettled_cash + the sum  *)
(* over its positions of net quantity x mark.                              *)
C1_EquityIdentityEverySnapshot ==
  \A i \in 1..Len(sim.portfolio_states) :
    sim.portfolio_states[i].equity = SnapshotValue(sim.portfolio_states[i])

(* C1, amended: every snapshot but the final one of a halted run has       *)
(* equity = cash + unsettled_cash + the sum of net quantity x mark; the    *)
(* final snapshot of a halted run has equity 0, and its cash +             *)
(* unsettled_cash + sum of net quantity x mark is <= 0.                    *)
C1_EquityIdentityUnlessHalted ==
  \A i \in 1..Len(sim.portfolio_states) :
    LET p == sim.portfolio_states[i] IN
    IF sim.pc = "halted" /\ i = Len(sim.portfolio_states)
    THEN p.equity = 0 /\ SnapshotValue(p) <= 0
    ELSE p.equity = SnapshotValue(p)

(* C1's case: a run halted on a bar whose open-price value is negative,    *)
(* after a bar that was recorded with a short position                     *)
C1_HaltedBelowZero ==
  /\ sim.pc = "halted"
  /\ Len(sim.portfolio_states) >= 2
  /\ SnapshotValue(Last(sim.portfolio_states)) < 0
  /\ \E sym \in Symbols : sim.portfolio_states[1].positions[sym].quantity < 0

(* C2: every fill, of an input order or of a bracket leg, has a timestamp  *)
(* >= the timestamp of the order it belongs to, and every order that was   *)
(* activated has a timestamp <= that of the bar that activated it.         *)
C2_NoLookAhead ==
  /\ \A i \in 1..Len(sim.fills) :
       sim.fills[i].timestamp >= OrderOf(sim.fills[i].client_order_id).timestamp
  /\ \A id \in sim.became_eligible :
       orders[id].timestamp <= bars[Min(sim.bar_idx + 1, Len(bars))].timestamp
  /\ \A i \in 1..Len(sim.active_orders) :
       sim.active_orders[i].client_order_id \in sim.became_eligible

(* C2's case: an order placed after the first bar has filled, and so has   *)
(* one of its bracket legs                                                 *)
C2_LateOrderAndLegFilled ==
  \E i, j \in 1..Len(sim.fills) :
    /\ sim.fills[i].client_order_id > 0
    /\ sim.fills[j].client_order_id = 0 - sim.fills[i].client_order_id
    /\ OrderOf(sim.fills[i].client_order_id).timestamp > bars[1].timestamp

(* C3: an input order whose timestamp some bar reaches is never filled or  *)
(* rejected on a bar index j with j - origin < min_delay; it is activated  *)
(* on bar origin + min_delay, the first bar index for which                *)
(* is_order_eligible holds, not before, and it takes part in that bar's    *)
(* order loop.                                                             *)
C3_MinDelay ==
  \A id \in 1..Len(orders) :
    LET o == orders[id]
        b == FirstEligibleBar(o)
    IN  HasOrigin(o) =>
          /\ b = Origin(o) + cfg.min_delay
          /\ \A i \in 1..Len(sim.fills) :
               Abs(sim.fills[i].client_order_id) = id =>
                 ~(BarIndexAt(sim.fills[i].timestamp) - Origin(o) < cfg.min_delay)
          /\ \A i \in 1..Len(sim.rejected_orders) :
               sim.rejected_orders[i].order.client_order_id = id =>
                 ~(BarIndexAt(sim.rejected_orders[i].timestamp) - Origin(o) < cfg.min_delay)
          /\ id \in sim.became_eligible => sim.bar_idx >= b
          /\ Activated(b) => id \in sim.became_eligible
          /\ (sim.bar_idx = b /\ sim.pc = "orders") =>
               \E i \in 1..Len(sim.active_orders) : sim.active_orders[i].client_order_id = id

(* C3's case: with min_delay 1, an order placed between the first and the  *)
(* second bar has filled on the third                                      *)
C3_FilledAfterDelay ==
  /\ cfg.min_delay = 1
  /\ \E i \in 1..Len(sim.fills) :
       LET f == sim.fills[i] IN
       /\ f.client_order_id > 0
       /\ Origin(OrderOf(f.client_order_id)) = 1
       /\ BarIndexAt(f.timestamp) = 2

(* C4: the kill switch is re-evaluated at the head of a bar and nowhere    *)
(* else; on a bar that does not halt it is engaged afterwards exactly when *)
(* it was engaged before, or max_drawdown_pct is set and the open-price    *)
(* equity is < peak_equity x (1 - max_drawdown_pct), or max_daily_loss_pct *)
(* is set and the open-price equity is < daily_start_equity x (1 -         *)
(* max_daily_loss_pct); once engaged it stays engaged.                     *)
C4_KillSwitch ==
  [][ /\ sim.kill_switch_engaged => sim'.kill_switch_engaged
      /\ sim.pc # "bar" => sim'.kill_switch_engaged = sim.kill_switch_engaged
      /\ (sim.pc = "bar" /\ sim'.pc # "halted") =>
           (sim'.kill_switch_engaged <=>
              \/ sim.kill_switch_engaged
              \/ /\ cfg.max_drawdown_pct # None
                 /\ OpenEquity' * 100 < sim'.peak_equity * (100 - cfg.max_drawdown_pct)
              \/ /\ cfg.max_daily_loss_pct # None
                 /\ OpenEquity' * 100
                      < sim'.daily_start_equity * (100 - cfg.max_daily_loss_pct)) ]_vars

(* C4's case: the switch engaged on an earlier bar and is still engaged at *)
(* the head of a bar whose open-price equity is back above the threshold   *)
C4_StillEngagedAfterRecovery ==
  /\ AtFirstOrder
  /\ sim.kill_switch_engaged
  /\ cfg.max_drawdown_pct # None
  /\ OpenEquity * 100 >= sim.peak_equity * (100 - cfg.max_drawdown_pct)

(* The order the next OrderStep processes, and the rejection it would      *)
(* record for a reason                                                     *)
ProcessedOrder == sim.active_orders[sim.k]

Rejection(reason) ==
  [order |-> ProcessedOrder, reason |-> reason, timestamp |-> CurrentBar.timestamp]

RiskCapReasons ==
  {"Net position cap", "Equity floor breached", "Frequency cap reached", "Pyramiding cap"}

(* C5, as stated: while the kill switch is engaged, every buy order        *)
(* processed on a bar is rejected on that bar with the kill-switch reason  *)
(* and produces no fill; a sell order is never rejected with the           *)
(* kill-switch reason.                                                     *)
C5_BuysRejectedWithKillSwitchReason ==
  [][ sim.pc = "orders" =>
        /\ (sim.kill_switch_engaged /\ ProcessedOrder.side = "buy") =>
             /\ sim'.rejected_orders =
                  Append(sim.rejected_orders, Rejection(KillSwitchReason))
             /\ sim'.fills = sim.fills
        /\ ProcessedOrder.side = "sell" =>
             sim'.rejected_orders #
               Append(sim.rejected_orders, Rejection(KillSwitchReason)) ]_vars

(* C5, amended: while the kill switch is engaged, every buy order          *)
(* processed on a bar is rejected on that bar and produces no fill; the    *)
(* reason is the kill-switch reason, or the reason of a risk cap (net      *)
(* position cap, equity floor, frequency cap, pyramiding) that rejected    *)
(* the order before the kill switch was consulted.  A sell order is never  *)
(* rejected with the kill-switch reason.                                   *)
C5_BuysRejectedWhileEngaged ==
  [][ sim.pc = "orders" =>
        /\ (sim.kill_switch_engaged /\ ProcessedOrder.side = "buy") =>
             /\ \E reason \in {KillSwitchReason} \cup RiskCapReasons :
                  sim'.rejected_orders = Append(sim.rejected_orders, Rejection(reason))
             /\ sim'.fills = sim.fills
        /\ ProcessedOrder.side = "sell" =>
             sim'.rejected_orders #
               Append(sim.rejected_orders, Rejection(KillSwitchReason)) ]_vars

(* C5's case: with the switch engaged, a buy order was rejected on the     *)
(* current bar with the kill-switch reason and has no fill                 *)
C5_BuyRejectedByKillSwitch ==
  /\ sim.kill_switch_engaged
  /\ sim.pc \in {"orders", "brackets", "close"}
  /\ \E i \in 1..Len(sim.rejected_orders) :
       LET r == sim.rejected_orders[i] IN
       /\ r.order.side = "buy"
       /\ r.reason = KillSwitchReason
       /\ r.timestamp = CurrentBar.timestamp
       /\ \A j \in 1..Len(sim.fills) :
            Abs(sim.fills[j].client_order_id) # r.order.client_order_id

(* C6: peak_equity never decreases, and after the head of a bar that does  *)
(* not halt it is >= that bar's open-price equity.                         *)
C6_PeakMonotonic ==
  [][ /\ sim'.peak_equity >= sim.peak_equity
      /\ (sim.pc = "bar" /\ sim'.pc # "halted") => sim'.peak_equity >= OpenEquity' ]_vars

(* C6's case: the peak rose above the starting equity, and a later bar     *)
(* opens with less equity than the peak                                    *)
C6_PeakAboveFallenEquity ==
  /\ AtFirstOrder
  /\ sim.peak_equity > cfg.initial_capital
  /\ OpenEquity < sim.peak_equity

(* C7: a bar whose open-price equity is <= 0 halts the run: its head       *)
(* appends the one point (timestamp of the bar, 0) and one snapshot of     *)
(* equity 0, and activates, rejects and fills nothing; a halted run takes  *)
(* no further step.  A bar whose open-price equity is > 0 does not halt.   *)
C7_EquityFloorHalt ==
  [][ /\ sim.pc # "halted"
      /\ sim.pc = "bar" =>
           IF OpenEquity' <= 0
           THEN /\ sim'.pc = "halted"
                /\ sim'.equity_curve =
                     Append(sim.equity_curve, <<CurrentBar'.timestamp, 0>>)
                /\ Len(sim'.portfolio_states) = Len(sim.portfolio_states) + 1
                /\ Last(sim'.portfolio_states).equity = 0
                /\ Last(sim'.portfolio_states).timestamp = CurrentBar'.timestamp
                /\ sim'.fills = sim.fills
                /\ sim'.rejected_orders = sim.rejected_orders
                /\ sim'.pending = sim.pending
                /\ sim'.active_orders = sim.active_orders
                /\ sim'.became_eligible = sim.became_eligible
                /\ sim'.active_brackets = sim.active_brackets
           ELSE sim'.pc # "halted" ]_vars

(* C7's case: a run halted before its last bar, with an order still        *)
(* waiting for a later bar                                                 *)
C7_HaltedWithOrderWaiting ==
  /\ sim.pc = "halted"
  /\ sim.bar_idx + 1 < Len(bars)
  /\ sim.pending # <<>>
  /\ Last(sim.equity_curve) = <<CurrentBar.timestamp, 0>>

(* C8: equity_curve and portfolio_states have one entry per bar processed, *)
(* in bar order, with the bar's timestamp and the same equity: len(bars)   *)
(* entries when the run ends without a halt, k + 1 when the equity floor   *)
(* halts it at bar index k.                                                *)
C8_OnePointPerBar ==
  /\ Len(sim.equity_curve) = Len(sim.portfolio_states)
  /\ \A i \in 1..Len(sim.equity_curve) :
       /\ sim.equity_curve[i][1] = bars[i].timestamp
       /\ sim.portfolio_states[i].timestamp = bars[i].timestamp
       /\ sim.equity_curve[i][2] = sim.portfolio_states[i].equity
  /\ sim.pc = "done" => Len(sim.equity_curve) = Len(bars)
  /\ sim.pc = "halted" => Len(sim.equity_curve) = sim.bar_idx + 1
  /\ sim.pc \in {"bar", "orders", "brackets", "close", "aborted"} =>
       Len(sim.equity_curve) = sim.bar_idx

(* C8's case: a run that ended without a halt after fills, and whose       *)
(* equity moved from bar to bar                                            *)
C8_FullCurve ==
  /\ sim.pc = "done"
  /\ sim.fills # <<>>
  /\ Len(sim.equity_curve) = Len(bars)
  /\ sim.equity_curve[1][2] # sim.equity_curve[Len(bars)][2]

(* The runs in the log *)
Runs == {i \in 1..Len(log) : log[i].call = "run" /\ log[i].result # <<>>}

(* The runs of a simulator that was constructed by the call before *)
FreshRuns ==
  {i \in Runs : i > 1 /\ log[i - 1].call = "construct" /\ log[i - 1].who = log[i].who}

WithoutFillIds(result) ==
  [result EXCEPT !.fills = [i \in 1..Len(@) |-> [@[i] EXCEPT !.fill_id = <<>>]]]

(* C9, as stated: two runs of freshly constructed simulators on the same   *)
(* bars, orders, configuration and random_seed return identical fills      *)
(* (every field, fill_id included), equity_curve and rejected_orders.      *)
C9_ReplayIdentical ==
  \A i, j \in FreshRuns : log[i].result[1] = log[j].result[1]

(* What the replay keeps: every field but fill_id *)
ReplayIdenticalButFillId ==
  \A i, j \in FreshRuns :
    WithoutFillIds(log[i].result[1]) = WithoutFillIds(log[j].result[1])

(* C10, as stated: whatever the order of the construction and run calls of *)
(* two simulators with the same random_seed, and on a second run of the    *)
(* same simulator, an order's fill has the same slippage in every run.     *)
C10_SlippageIndependentOfOtherRuns ==
  \A i, j \in Runs :
    \A m \in 1..Len(log[i].result[1].fills), n \in 1..Len(log[j].result[1].fills) :
      LET f == log[i].result[1].fills[m]
          g == log[j].result[1].fills[n]
      IN  f.client_order_id = g.client_order_id => f.slippage = g.slippage

-----------------------------------------------------------------------------
(* The account on its own: apply_fill and process_settlement called        *)
(* directly on one AccountState, as tests/test_accounting.py does.  `sim`  *)
(* holds the account, `log` the calls made on it with the account each     *)
(* call left behind.                                                       *)

(* The AccountState of a simulator record *)
Account(s) ==
  [cash |-> s.cash, unsettled_cash |-> s.unsettled_cash, positions |-> s.positions,
   settlement_queue |-> s.settlement_queue,
   day_trades_remaining |-> s.day_trades_remaining]

AccountConfigs == {[BaseCfg EXCEPT !.settlement_days = d] : d \in {0, 1}}

(* The fills applied: two buys that open two lots, the second with a       *)
(* commission, and a sell that closes the first lot and part of the second *)
(* or opens a short, with a commission                                     *)
FillKinds ==
  { [side |-> "buy", quantity |-> 1, price |-> 100, commission |-> 0],
    [side |-> "buy", quantity |-> 2, price |-> 300, commission |-> 10],
    [side |-> "sell", quantity |-> 2, price |-> 200, commission |-> 10] }

FillTimes == {0, 1}

SettleTimes == 0..(2 * TicksPerDay)

AccountFill(kind, ts, fill_id) ==
  [fill_id |-> fill_id, client_order_id |-> 1, symbol |-> "AAPL", side |-> kind.side,
   quantity |-> kind.quantity, price |-> kind.price, commission |-> kind.commission,
   slippage |-> 0, realized_pnl |-> None, timestamp |-> ts]

AccountCall(call, arg, after, realized) ==
  [call |-> call, arg |-> arg, after |-> after, realized |-> realized]

AccountInit ==
  /\ cfg \in AccountConfigs
  /\ orders = <<>>
  /\ bars = <<>>
  /\ sim = Construct(cfg)
  /\ peer = Unbuilt(cfg)
  /\ process_rng = random_seed(cfg.random_seed)
  /\ log = <<>>

ApplyFill ==
  /\ Len(log) < MaxCalls
  /\ \E kind \in FillKinds, ts \in FillTimes :
       LET fill == AccountFill(kind, ts, <<"a", Len(log) + 1>>)
           r == account_apply_fill(sim, fill, cfg.settlement_days)
       IN  /\ sim' = r.s
           /\ log' = Append(log, AccountCall("apply_fill", fill, Account(r.s), r.realized))
  /\ UNCHANGED <<cfg, orders, bars, peer, process_rng>>

ProcessSettlement ==
  /\ Len(log) < MaxCalls
  /\ \E t \in SettleTimes :
       /\ sim' = process_settlement(sim, t)
       /\ log' = Append(log, AccountCall("process_settlement", t, Account(sim'), 0))
  /\ UNCHANGED <<cfg, orders, bars, peer, process_rng>>

AccountNext == ApplyFill \/ ProcessSettlement

SpecAccount == AccountInit /\ [][AccountNext]_vars

(* The account before call i of the log *)
Before(i) == IF i = 1 THEN Account(Construct(cfg)) ELSE log[i - 1].after

Settlements == {i \in 1..Len(log) : log[i].call = "process_settlement"}

AppliedFills == {i \in 1..Len(log) : log[i].call = "apply_fill"}

(* C15: after process_settlement(t), every entry left in the settlement    *)
(* queue has release_time > t, and every entry that had release_time <= t  *)
(* is gone from it (the others stay, in their order).                      *)
C15_SettlementReleasesDueEntries ==
  \A i \in Settlements :
    LET t == log[i].arg
        was == Before(i).settlement_queue
        now == log[i].after.settlement_queue
    IN  /\ \A n \in 1..Len(now) : now[n].release_time > t
        /\ now = SelectSeq(was, LAMBDA e : e.release_time > t)

(* A call at the very release time of a queued entry, which leaves a later *)
(* entry in the queue *)
C15_ReleasedAtReleaseTime ==
  \E i \in Settlements :
    LET was == Before(i).settlement_queue IN
    /\ \E n \in 1..Len(was) : was[n].release_time = log[i].arg
    /\ log[i].after.settlement_queue # <<>>
    /\ Len(log[i].after.settlement_queue) < Len(was)

(* The sells whose proceeds wait for settlement, their proceeds and their  *)
(* release time *)
DeferredSells ==
  {i \in AppliedFills : log[i].arg.side = "sell" /\ cfg.settlement_days > 0}

Proceeds(i) == log[i].arg.price * log[i].arg.quantity - log[i].arg.commission

ReleaseTime(i) == log[i].arg.timestamp + cfg.settlement_days * TicksPerDay

(* Call k is the first process_settlement after fill i at or after the     *)
(* fill's release time *)
FirstRelease(i, k) ==
  /\ k \in Settlements /\ k > i /\ log[k].arg >= ReleaseTime(i)
  /\ \A n \in Settlements : (i < n /\ n < k) => log[n].arg < ReleaseTime(i)

-----------------------------------------------------------------------------
(* A PositionRecord on its own: apply_fill called once on a record built   *)
(* with given lots, as tests/test_accounting_edge_cases.py does (lots of   *)
(* both signs in one record included).  `sim` holds the record under       *)
(* "AAPL", `log` the call.                                                 *)

MaxLots == 2

LotChoices ==
  {[quantity |-> q, entry_price |-> p, entry_time |-> 0] :
     q \in {0 - 2, 0 - 1, 1, 2}, p \in {100, 300}}

LotLists == UNION {[1..n -> LotChoices] : n \in 0..MaxLots}

LotsInit ==
  /\ cfg = BaseCfg
  /\ orders = <<>>
  /\ bars = <<>>
  /\ \E lots \in LotLists, realized_pnl \in {0, 50} :
       sim = [Construct(cfg) EXCEPT
                !.positions["AAPL"] = [lots |-> lots, realized_pnl |-> realized_pnl]]
  /\ peer = Unbuilt(cfg)
  /\ process_rng = random_seed(cfg.random_seed)
  /\ log = <<>>

RecordApplyFill ==
  /\ log = <<>>
  /\ \E kind \in FillKinds, ts \in FillTimes :
       LET fill == AccountFill(kind, ts, <<"a", 1>>)
           r == record_apply_fill(sim.positions["AAPL"], fill)
       IN  /\ sim' = [sim EXCEPT !.positions["AAPL"] = r.rec]
           /\ log' = <<AccountCall("apply_fill", fill, r.rec, r.realized)>>
  /\ UNCHANGED <<cfg, orders, bars, peer, process_rng>>

LotsNext == RecordApplyFill

SpecLots == LotsInit /\ [][LotsNext]_vars

(* The FIFO rule, stated lot by lot for a fill f on the lots B: lot n is   *)
(* closable when its sign is opposite to the fill, and the fill closes of  *)
(* it what the closable lots ahead of it have left over.                   *)
Closable(f, lot) == IF f.side = "sell" THEN lot.quantity > 0 ELSE lot.quantity < 0

Ahead(f, B, n) ==
  LET S == {m \in 1..(n - 1) : Closable(f, B[m])}
  IN  SumOver([m \in S |-> Abs(B[m].quantity)], S)

Closed(f, B, n) ==
  IF Closable(f, B[n])
  THEN Min(Abs(B[n].quantity), Max(0, f.quantity - Ahead(f, B, n)))
  ELSE 0

FifoLots(f, B) ==
  LET reduced == [n \in 1..Len(B) |->
                    [B[n] EXCEPT !.quantity = IF @ > 0 THEN @ - Closed(f, B, n)
                                              ELSE @ + Closed(f, B, n)]]
      closed == SumOver([n \in 1..Len(B) |-> Closed(f, B, n)], 1..Len(B))
      residual == f.quantity - closed
  IN  SelectSeq(reduced, LAMBDA lot : lot.quantity # 0)
        \o (IF residual > 0
            THEN <<[quantity |-> IF f.side = "sell" THEN 0 - residual ELSE residual,
                    entry_price |-> f.price, entry_time |-> f.timestamp]>>
            ELSE <<>>)

FifoRealized(f, B) ==
  SumOver([n \in 1..Len(B) |->
             (IF f.side = "sell" THEN f.price - B[n].entry_price
              ELSE B[n].entry_price - f.price) * Closed(f, B, n)],
          1..Len(B))

(* C17: PositionRecord.apply_fill closes the lots of the opposite sign     *)
(* oldest first; the realized P&L it returns is the sum over the closed    *)
(* portions of (fill price - entry price) x closed quantity for a sell,    *)
(* negated for a buy; fully closed lots are removed, a partly closed lot   *)
(* keeps its sign and entry price with the reduced quantity, the residual  *)
(* is appended as one new lot in the fill's direction; net_quantity        *)
(* changes by the signed fill quantity and realized_pnl grows by the       *)
(* returned value.                                                         *)
C17_FifoLots ==
  [][LET f == log'[1].arg
         rec == sim.positions["AAPL"]
         now == sim'.positions["AAPL"]
         signed == IF f.side = "sell" THEN 0 - f.quantity ELSE f.quantity
     IN  /\ now.lots = FifoLots(f, rec.lots)
         /\ log'[1].realized = FifoRealized(f, rec.lots)
         /\ net_quantity(now) = net_quantity(rec) + signed
         /\ now.realized_pnl = rec.realized_pnl + log'[1].realized]_vars

(* A sell of 2 on two long lots of 1 and 2: the older lot is removed, the  *)
(* newer one keeps 1 at its entry price *)
C17_OlderLotClosedFirst ==
  /\ log # <<>>
  /\ log[1].arg.side = "sell"
  /\ log[1].after.lots = <<[quantity |-> 1, entry_price |-> 300, entry_time |-> 0]>>
  /\ log[1].realized = 0

-----------------------------------------------------------------------------
(* The constraint pipeline, one order at a time (specification Spec) *)

(* The outcome of each check for the order the run is about to process, in *)
(* the order net-position cap, equity-floor cap, frequency cap, pyramiding *)
(* cap, kill switch, position limit, buying power, margin, gross leverage, *)
(* short permission, PDT: "" when the check passes, its reason otherwise   *)
CheckOutcomes ==
  LET order == ProcessedOrder
      mark == CurrentBar.open
      snapshot == to_portfolio_state(sim, mark, CurrentBar.timestamp)
  IN  << IF enforce_net_position_cap(gross_exposure(snapshot), snapshot.equity,
                                     cfg.net_position_cap_pct)
         THEN "" ELSE "Net position cap",
         IF enforce_equity_floor(snapshot.equity, cfg.equity_floor_pct,
                                 sim.starting_equity)
         THEN "" ELSE "Equity floor breached",
         IF enforce_frequency_cap(sim.trades_today, cfg.frequency_cap_per_day)
         THEN "" ELSE "Frequency cap reached",
         IF enforce_pyramiding_limit(1, cfg.pyramiding_layers)
         THEN "" ELSE "Pyramiding cap",
         check_kill_switch(sim.kill_switch_engaged, order),
         check_position_limit(order, snapshot, cfg.max_position_pct, mark),
         check_buying_power(order, snapshot, mark),
         check_margin(order, snapshot, mark, cfg.initial_margin_rate),
         check_gross_leverage(order, snapshot, mark, cfg.max_gross_leverage),
         check_short_permission(order, snapshot, cfg.short_enabled,
                                cfg.locate_required),
         check_pdt(snapshot, day_trade(sim, order, CurrentBar)) >>

FailedChecks == {i \in 1..Len(CheckOutcomes) : CheckOutcomes[i] # ""}

FirstFailed == CHOOSE i \in FailedChecks : \A n \in FailedChecks : i <= n

(* C18: processing an active order on a bar runs the checks in the fixed   *)
(* order above; when none fails nothing is rejected, and when some fail    *)
(* exactly one RejectedOrder is appended, for that order, with the reason  *)
(* of the first failing check and the bar's timestamp, and the order is    *)
(* not matched on that bar (no fill, not executed); no order is rejected   *)
(* twice on one bar.                                                       *)
C18_FirstFailingCheckRejects ==
  [][ sim.pc = "orders" =>
        /\ IF FailedChecks = {}
           THEN sim'.rejected_orders = sim.rejected_orders
           ELSE /\ sim'.rejected_orders =
                     Append(sim.rejected_orders,
                            [order |-> ProcessedOrder,
                             reason |-> CheckOutcomes[FirstFailed],
                             timestamp |-> CurrentBar.timestamp])
                /\ sim'.fills = sim.fills
                /\ sim'.executed_orders = sim.executed_orders
        /\ \A m, n \in 1..Len(sim'.rejected_orders) :
             ( /\ sim'.rejected_orders[m].order.client_order_id
                    = sim'.rejected_orders[n].order.client_order_id
               /\ sim'.rejected_orders[m].timestamp = sim'.rejected_orders[n].timestamp )
             => m = n ]_vars

(* An order that fails a later check as well as the one it was rejected    *)
(* for: the last rejection of the bar carries the reason of the earlier    *)
(* check, and the order has no fill on the bar *)
C18_RejectedForEarlierOfTwo ==
  /\ sim.pc \in {"orders", "brackets", "close"}
  /\ sim.rejected_orders # <<>>
  /\ LET r == Last(sim.rejected_orders) IN
     /\ r.timestamp = CurrentBar.timestamp
     /\ r.reason = "Frequency cap reached"
     /\ check_kill_switch(sim.kill_switch_engaged, r.order) # ""
     /\ \A i \in 1..Len(sim.fills) :
          ~( sim.fills[i].client_order_id = r.order.client_order_id
             /\ sim.fills[i].timestamp = r.timestamp )

(* C19: a constraint rejection is soft: the step that rejects an order     *)
(* leaves cash, unsettled_cash, positions, the settlement queue,           *)
(* day_trades_remaining, trades_today and active_brackets as they were,    *)
(* keeps the pending orders and keeps the rejected order active, and the   *)
(* run goes on on the same bar with the next active order, or with the     *)
(* brackets and the bar close when it was the last one.                    *)
C19_RejectionIsSoft ==
  [][ (sim.pc = "orders" /\ sim'.rejected_orders # sim.rejected_orders) =>
        /\ Account(sim') = Account(sim)
        /\ sim'.trades_today = sim.trades_today
        /\ sim'.active_brackets = sim.active_brackets
        /\ sim'.pending = sim.pending
        /\ \E n \in 1..Len(sim'.active_orders) : sim'.active_orders[n] = ProcessedOrder
        /\ sim'.bar_idx = sim.bar_idx
        /\ IF sim.k < Len(sim.active_orders)
           THEN sim'.pc = "orders" /\ sim'.k = sim.k + 1
           ELSE sim'.pc \in {"brackets", "close"} ]_vars

(* A finished run in which an order was rejected on one bar and an order   *)
(* was filled on a later bar *)
C19_FilledAfterRejection ==
  /\ sim.pc = "done"
  /\ \E i \in 1..Len(sim.rejected_orders), n \in 1..Len(sim.fills) :
       sim.fills[n].timestamp > sim.rejected_orders[i].timestamp

(* The fills of the legs of the bracket of parent order `parent` *)
LegFills(s, parent) ==
  {n \in 1..Len(s.fills) : s.fills[n].client_order_id = 0 - parent}

(* C20: when the bar reaches both legs of a bracket, the simulator fills   *)
(* the stop-loss leg, as a stop order (at the worse of stop price and open *)
(* with slippage against it), on that bar, and drops the bracket; the legs *)
(* of one bracket never have more than one fill, so the take-profit leg    *)
(* has none.                                                               *)
C20_StopLossWins ==
  [][ ( /\ sim.pc = "brackets"
        /\ sl_trigger(sim.active_brackets[sim.j], CurrentBar.high, CurrentBar.low)
        /\ tp_trigger(sim.active_brackets[sim.j], CurrentBar.high, CurrentBar.low) )
      => LET bracket == sim.active_brackets[sim.j]
             leg == bracket.stop_loss[1]
             fill == Last(sim'.fills)
         IN  /\ process_brackets(bracket, CurrentBar.high, CurrentBar.low)
                  = bracket.stop_loss
             /\ Len(sim'.fills) = Len(sim.fills) + 1
             /\ fill.client_order_id = leg.client_order_id
             /\ fill.side = leg.side
             /\ fill.quantity = leg.quantity
             /\ fill.timestamp = CurrentBar.timestamp
             /\ fill.price = IF leg.side = "sell"
                             THEN Min(leg.stop_price, CurrentBar.open) - fill.slippage
                             ELSE Max(leg.stop_price, CurrentBar.open) + fill.slippage
             /\ sim'.remaining_brackets = sim.remaining_brackets
             /\ \A n \in 1..Len(orders) : Cardinality(LegFills(sim', n)) <= 1 ]_vars

(* A finished run in which a stop-loss leg was filled on a bar that        *)
(* reached both legs, with a later bar that reaches the take-profit price  *)
C20_StopLossFilledOnWideBar ==
  /\ sim.pc = "done"
  /\ \E n \in 1..Len(sim.fills) :
       LET fill == sim.fills[n] IN
       /\ fill.client_order_id < 0
       /\ LET o == OrderOf(fill.client_order_id)
              i == BarIndexAt(fill.timestamp) + 1
          IN  /\ bars[i].low <= o.sl /\ bars[i].high >= o.tp
              /\ fill.price = Min(o.sl, bars[i].open) - fill.slippage
              /\ \E m \in (i + 1)..Len(bars) : bars[m].high >= o.tp

-----------------------------------------------------------------------------
(* checkpoint.py.  A checkpoint file is its leading bytes (`prefix`),      *)
(* whether msgpack can decode it, and the decoded payload: a map or some   *)
(* other msgpack value.  str(Decimal) and isoformat() strings are written  *)
(* <<"str", x>> and <<"iso", t>>, model_dump(mode="json") is <<"json", m>>. *)

CHECKPOINT_SCHEMA_VERSION == 1

str(x) == <<"str", x>>
Decimal(s) == s[2]
isoformat(t) == <<"iso", t>>
fromisoformat(s) == s[2]
model_dump(m) == <<"json", m>>
model_validate(d) == d[2]

(* The AccountState a simulator owns; the account currency is the          *)
(* provider's default                                                      *)
AccountStateOf(s) ==
  [cash |-> s.cash, unsettled_cash |-> s.unsettled_cash, positions |-> s.positions,
   settlement_queue |-> s.settlement_queue,
   day_trades_remaining |-> s.day_trades_remaining,
   account_currency |-> "USD", last_swap_time |-> s.last_swap_time]

position_lot_to_dict(lot) ==
  [quantity |-> str(lot.quantity), entry_price |-> str(lot.entry_price),
   entry_time |-> isoformat(lot.entry_time)]

dict_to_position_lot(data) ==
  [quantity |-> Decimal(data.quantity), entry_price |-> Decimal(data.entry_price),
   entry_time |-> fromisoformat(data.entry_time)]

position_record_to_dict(rec) ==
  [lots |-> [i \in 1..Len(rec.lots) |-> position_lot_to_dict(rec.lots[i])],
   realized_pnl |-> str(rec.realized_pnl)]

dict_to_position_record(data) ==
  [lots |-> [i \in 1..Len(data.lots) |-> dict_to_position_lot(data.lots[i])],
   realized_pnl |-> Decimal(data.realized_pnl)]

settlement_entry_to_dict(entry) ==
  [amount |-> str(entry.amount), release_time |-> isoformat(entry.release_time)]

dict_to_settlement_entry(data) ==
  [amount |-> Decimal(data.amount), release_time |-> fromisoformat(data.release_time)]

(* _account_state_to_dict writes six keys; last_swap_time is not one of them *)
account_state_to_dict(state) ==
  [cash |-> str(state.cash),
   unsettled_cash |-> str(state.unsettled_cash),
   positions |-> [sym \in Symbols |-> position_record_to_dict(state.positions[sym])],
   settlement_queue |-> [i \in 1..Len(state.settlement_queue) |->
                           settlement_entry_to_dict(state.settlement_queue[i])],
   day_trades_remaining |-> state.day_trades_remaining,
   account_currency |-> state.account_currency]

(* AccountState(cash=...), then the five assignments; last_swap_time keeps *)
(* the dataclass default                                                   *)
dict_to_account_state(data) ==
  [cash |-> Decimal(data.cash),
   unsettled_cash |-> Decimal(data.unsettled_cash),
   positions |-> [sym \in Symbols |-> dict_to_position_record(data.positions[sym])],
   settlement_queue |-> [i \in 1..Len(data.settlement_queue) |->
                           dict_to_settlement_entry(data.settlement_queue[i])],
   day_trades_remaining |-> data.day_trades_remaining,
   account_currency |-> data.account_currency,
   last_swap_time |-> None]

bracket_to_dict(bracket) ==
  [stop_loss |-> IF bracket.stop_loss # <<>>
                 THEN <<model_dump(bracket.stop_loss[1])>> ELSE <<>>,
   take_profit |-> IF bracket.take_profit # <<>>
                   THEN <<model_dump(bracket.take_profit[1])>> ELSE <<>>,
   parent_id |-> bracket.parent_id]

dict_to_bracket(data) ==
  [stop_loss |-> IF data.stop_loss # <<>>
                 THEN <<model_validate(data.stop_loss[1])>> ELSE <<>>,
   take_profit |-> IF data.take_profit # <<>>
                   THEN <<model_validate(data.take_profit[1])>> ELSE <<>>,
   parent_id |-> data.parent_id]

(* Simulator.to_checkpoint / create_checkpoint: the fields the checkpoint  *)
(* takes from the simulator, and the state of the process-wide generator   *)
to_checkpoint(s, c, rng, backtest_id, config_hash) ==
  [backtest_id |-> backtest_id,
   config_hash |-> config_hash,
   config |-> c,
   account_state |-> AccountStateOf(s),
   current_day |-> s.current_day,
   peak_equity |-> s.peak_equity,
   daily_start_equity |-> s.daily_start_equity,
   kill_switch_engaged |-> s.kill_switch_engaged,
   active_brackets |-> s.active_brackets,
   random_state |-> rng,
   schema_version |-> CHECKPOINT_SCHEMA_VERSION]

checkpoint_to_dict(chk) ==
  [schema_version |-> chk.schema_version,
   backtest_id |-> chk.backtest_id,
   config_hash |-> chk.config_hash,
   config |-> model_dump(chk.config),
   account_state |-> account_state_to_dict(chk.account_state),
   current_day |-> IF chk.current_day # None THEN isoformat(chk.current_day) ELSE <<>>,
   peak_equity |-> str(chk.peak_equity),
   daily_start_equity |-> str(chk.daily_start_equity),
   kill_switch_engaged |-> chk.kill_switch_engaged,
   active_brackets |-> [i \in 1..Len(chk.active_brackets) |->
                          bracket_to_dict(chk.active_brackets[i])],
   random_state |-> <<chk.random_state.seed, chk.random_state.n>>]

dict_to_checkpoint(data) ==
  [schema_version |-> data.schema_version,
   backtest_id |-> data.backtest_id,
   config_hash |-> data.config_hash,
   config |-> model_validate(data.config),
   account_state |-> dict_to_account_state(data.account_state),
   current_day |-> IF data.current_day # <<>> THEN fromisoformat(data.current_day)
                   ELSE None,
   peak_equity |-> Decimal(data.peak_equity),
   daily_start_equity |-> Decimal(data.daily_start_equity),
   kill_switch_engaged |-> data.kill_switch_engaged,
   active_brackets |-> [i \in 1..Len(data.active_brackets) |->
                          dict_to_bracket(data.active_brackets[i])],
   random_state |-> [seed |-> data.random_state[1], n |-> data.random_state[2]]]

(* SimulationCheckpoint.save: the bytes msgpack.encode writes for the dict *)
save(chk) ==
  [prefix |-> "msgpack", decodes |-> TRUE,
   payload |-> [kind |-> "map", value |-> checkpoint_to_dict(chk)]]

Raised(error, message) == [ok |-> FALSE, error |-> error, message |-> message]

Returned(chk) == [ok |-> TRUE, chk |-> chk]

(* SimulationCheckpoint.load(path, expected_config_hash); the expected     *)
(* hash is <<>> when none is given                                         *)
load(file, expected_config_hash) ==
  IF file.prefix = "pickle"
  THEN Raised("CheckpointFormatError", "legacy pickle format")
  ELSE IF ~file.decodes
  THEN Raised("CheckpointFormatError", "Failed to decode checkpoint")
  ELSE IF file.payload.kind # "map"
  THEN Raised("CheckpointFormatError", "expected dict")
  ELSE IF file.payload.value.schema_version > CHECKPOINT_SCHEMA_VERSION
  THEN Raised("CheckpointFormatError", "schema version is newer than supported")
  ELSE LET chk == dict_to_checkpoint(file.payload.value) IN
       IF expected_config_hash # <<>> /\ chk.config_hash # expected_config_hash[1]
       THEN Raised("ValueError", "Config hash mismatch")
       ELSE Returned(chk)

(* Simulator(provider_config, config, account_state): the fields after     *)
(* __post_init__ when the caller passes the account                        *)
ConstructWith(c, account_state) ==
  LET cash == IF account_state.cash = 0 /\ c.initial_capital # 0
              THEN c.initial_capital ELSE account_state.cash
      init_equity == cash + account_state.unsettled_cash
  IN  [Construct(c) EXCEPT
         !.cash = cash,
         !.unsettled_cash = account_state.unsettled_cash,
         !.positions = account_state.positions,
         !.settlement_queue = account_state.settlement_queue,
         !.day_trades_remaining =
            IF c.pdt_enabled /\ account_state.day_trades_remaining = None
            THEN PdtDefault ELSE account_state.day_trades_remaining,
         !.last_swap_time = account_state.last_swap_time,
         !.rng = random_seed(c.random_seed),
         !.peak_equity = init_equity,
         !.daily_start_equity = init_equity,
         !.starting_equity = init_equity]

(* Simulator.from_checkpoint: restore_random_state(), then the constructor *)
(* (whose __post_init__ seeds the generator again), then the five fields   *)
(* taken from the checkpoint.  `restored` is the generator state after the *)
(* first of the three steps, `rng` of the result the state after the last. *)
from_checkpoint(checkpoint) ==
  LET restored == checkpoint.random_state
      s == ConstructWith(checkpoint.config, checkpoint.account_state)
  IN  [s EXCEPT !.current_day = checkpoint.current_day,
                !.peak_equity = checkpoint.peak_equity,
                !.daily_start_equity = checkpoint.daily_start_equity,
                !.kill_switch_engaged = checkpoint.kill_switch_engaged,
                !.active_brackets = checkpoint.active_brackets]

-----------------------------------------------------------------------------
(* Checkpoint and resume.  sim is the simulator that runs the first k bars *)
(* and is checkpointed; peer is the simulator from_checkpoint returns,     *)
(* which runs the bars from k on.  log holds the calls: "run_head" with k, *)
(* "save" with the file written, "tamper" with the file as damaged in      *)
(* storage, "load" with what load returned or raised, "from_checkpoint",   *)
(* "run_tail".                                                             *)

CheckpointConfigs ==
  { [BaseCfg EXCEPT !.slippage_model = "Random"],
    [BaseCfg EXCEPT !.initial_capital = 200],
    [BaseCfg EXCEPT !.frequency_cap_per_day = 1] }

DayBuy == OrderKind("buy", "MARKET", 1, None, None, "DAY", None, None, "AAPL")

(* DAY market orders placed at the first or the second bar: with no delay  *)
(* each is filled, or rejected and expired, on the bar it was placed at    *)
CheckpointOrders ==
  UNION { {[i \in 1..n |-> MakeOrder(ch[i][1], i, ch[i][2])] :
             ch \in [1..n -> {DayBuy, BracketBuy} \X {0, 1}]} :
          n \in 0..MaxOrders }

CheckpointShapes ==
  { [symbol |-> "AAPL", open |-> 200, high |-> 200, low |-> 200, close |-> 200, volume |-> 2],
    [symbol |-> "AAPL", open |-> 100, high |-> 100, low |-> 100, close |-> 100, volume |-> 2] }

CheckpointBars ==
  {[i \in 1..NumBars |-> MakeBar(IF i = 1 THEN first ELSE later, i - 1)] :
     first \in CheckpointShapes, later \in CheckpointShapes}

CheckpointUuid == [i \in 1..(2 * MaxOrders + 1) |-> <<"a", i>>]

CheckpointInit ==
  /\ cfg \in CheckpointConfigs
  /\ orders \in CheckpointOrders
  /\ bars \in CheckpointBars
  /\ sim = Construct(cfg)
  /\ peer = Unbuilt(cfg)
  /\ process_rng = random_seed(cfg.random_seed)
  /\ log = <<>>

CheckpointCall(call, arg, result) == [call |-> call, arg |-> arg, result |-> result]

(* The orders placed before bar k + 1 opens, and the others *)
HeadOrders(k) == SelectSeq(orders, LAMBDA o : o.timestamp < bars[k + 1].timestamp)

TailOrders(k) ==
  IF k = 0 THEN orders
  ELSE SelectSeq(orders, LAMBDA o : ~(o.timestamp < bars[k + 1].timestamp))

(* How many bars ran before the checkpoint *)
HeadLength == IF log # <<>> /\ log[1].call = "run_head" THEN log[1].arg ELSE 0

RunHead ==
  /\ log = <<>>
  /\ \E k \in 1..(NumBars - 1) :
       /\ sim' = run(Loaded, HeadOrders(k), SubSeq(bars, 1, k), cfg, CheckpointUuid)
       /\ log' = <<CheckpointCall("run_head", k, SimulationResult(sim'))>>
  /\ process_rng' = sim'.rng
  /\ UNCHANGED <<cfg, orders, bars, peer>>

(* sim.to_checkpoint(backtest_id, config_hash).save(path) *)
Save ==
  /\ IF log = <<>> THEN TRUE ELSE Last(log).call = "run_head"
  /\ sim.pc \in {"idle", "done", "halted"}
  /\ log' = Append(log, CheckpointCall("save", "h1",
                          save(to_checkpoint(sim, cfg, process_rng, "bt", "h1"))))
  /\ UNCHANGED <<cfg, orders, bars, sim, peer, process_rng>>

FileDefects == {"pickle", "corrupt", "not_map", "newer_schema"}

(* The file after storage damaged it: a pickle prefix, undecodable bytes,  *)
(* a payload that is no map, a schema_version above the supported one      *)
Damaged(file, defects) ==
  [prefix |-> IF "pickle" \in defects THEN "pickle" ELSE file.prefix,
   decodes |-> file.decodes /\ "corrupt" \notin defects,
   payload |-> IF "not_map" \in defects
               THEN [kind |-> "array", value |-> <<>>]
               ELSE [file.payload EXCEPT
                       !.value.schema_version =
                          IF "newer_schema" \in defects
                          THEN CHECKPOINT_SCHEMA_VERSION + 1 ELSE @]]

Tamper ==
  /\ log # <<>> /\ Last(log).call = "save"
  /\ \E defects \in (SUBSET FileDefects) \ {{}} :
       log' = Append(log, CheckpointCall("tamper", defects,
                                         Damaged(Last(log).result, defects)))
  /\ UNCHANGED <<cfg, orders, bars, sim, peer, process_rng>>

ExpectedHashes == {<<>>, <<"h1">>, <<"h2">>}

Load ==
  /\ log # <<>> /\ Last(log).call \in {"save", "tamper"}
  /\ \E expected_config_hash \in ExpectedHashes :
       log' = Append(log, CheckpointCall("load", expected_config_hash,
                                         load(Last(log).result, expected_config_hash)))
  /\ UNCHANGED <<cfg, orders, bars, sim, peer, process_rng>>

FromCheckpoint ==
  /\ log # <<>> /\ Last(log).call = "load" /\ Last(log).result.ok
  /\ peer' = from_checkpoint(Last(log).result.chk)
  /\ process_rng' = peer'.rng
  /\ log' = Append(log, CheckpointCall("from_checkpoint", <<>>, <<>>))
  /\ UNCHANGED <<cfg, orders, bars, sim>>

RunTail ==
  /\ log # <<>> /\ Last(log).call = "from_checkpoint"
  /\ peer' = run([peer EXCEPT !.rng = process_rng], TailOrders(HeadLength),
                 SubSeq(bars, HeadLength + 1, NumBars), cfg, CheckpointUuid)
  /\ process_rng' = peer'.rng
  /\ log' = Append(log, CheckpointCall("run_tail", HeadLength, SimulationResult(peer')))
  /\ UNCHANGED <<cfg, orders, bars, sim>>

CheckpointNext == RunHead \/ Save \/ Load \/ FromCheckpoint \/ RunTail

SpecCheckpoint == CheckpointInit /\ [][CheckpointNext]_vars

(* Loading files, sound and damaged *)
LoadNext == Save \/ Tamper \/ Load

SpecLoad == CheckpointInit /\ [][LoadNext]_vars

(* from_checkpoint has just returned; the checkpoint it was given *)
Restored == log # <<>> /\ Last(log).call = "from_checkpoint"

LoadedCheckpoint == log[Len(log) - 1].result.chk

(* C12, as stated: when from_checkpoint returns, the state of the process  *)
(* generator is the checkpoint's random_state, so the next draw is the one *)
(* the checkpointed simulator would have made next.                        *)
C12_RngStateRestored ==
  Restored =>
    /\ process_rng = LoadedCheckpoint.random_state
    /\ random_value(process_rng) = random_value(sim.rng)

(* What from_checkpoint leaves: the generator as seeded from random_seed,  *)
(* whatever the checkpoint recorded *)
RngReseededOnRestore ==
  Restored => process_rng = random_seed(LoadedCheckpoint.config.random_seed)

(* C13, as stated: the simulator that to_checkpoint, save, load and        *)
(* from_checkpoint yield has the AccountState (cash, unsettled_cash,       *)
(* positions and lots, settlement queue, day_trades_remaining,             *)
(* account_currency, last_swap_time), current_day, peak_equity,            *)
(* daily_start_equity, kill_switch_engaged and active_brackets of the      *)
(* simulator that was checkpointed.                                        *)
C13_RoundTripState ==
  Restored =>
    /\ AccountStateOf(peer) = AccountStateOf(sim)
    /\ peer.current_day = sim.current_day
    /\ peer.peak_equity = sim.peak_equity
    /\ peer.daily_start_equity = sim.daily_start_equity
    /\ peer.kill_switch_engaged = sim.kill_switch_engaged
    /\ peer.active_brackets = sim.active_brackets

(* What the round trip keeps: everything named in C13 when the cash at the *)
(* checkpoint is not 0 *)
RoundTripStateUnlessCashZero ==
  (Restored /\ sim.cash # 0) => C13_RoundTripState

(* One uninterrupted run of a fresh simulator over all the bars *)
Uninterrupted == run(Construct(cfg), orders, bars, cfg, CheckpointUuid)

(* The run of the bars from k on by the checkpointed simulator itself,     *)
(* with no checkpoint in between *)
Continued ==
  run(sim, TailOrders(HeadLength), SubSeq(bars, HeadLength + 1, NumBars), cfg,
      CheckpointUuid)

(* What the run of the first k bars returned; nothing when k = 0 *)
HeadResult ==
  IF log[1].call = "run_head" THEN log[1].result[1]
  ELSE [fills |-> <<>>, equity_curve |-> <<>>, rejected_orders |-> <<>>]

NoFillId(fills) == [i \in 1..Len(fills) |-> [fills[i] EXCEPT !.fill_id = <<>>]]

(* Simulator s, having run the bars from k on, ends where the              *)
(* uninterrupted run ends, and the fills (fill_id aside), rejections and   *)
(* equity points of the two parts are those of the uninterrupted run       *)
MatchesUninterrupted(s) ==
  LET whole == Uninterrupted IN
  /\ AccountStateOf(s) = AccountStateOf(whole)
  /\ s.peak_equity = whole.peak_equity
  /\ s.daily_start_equity = whole.daily_start_equity
  /\ s.kill_switch_engaged = whole.kill_switch_engaged
  /\ s.active_brackets = whole.active_brackets
  /\ NoFillId(HeadResult.fills) \o NoFillId(s.fills) = NoFillId(whole.fills)
  /\ HeadResult.rejected_orders \o s.rejected_orders = whole.rejected_orders
  /\ HeadResult.equity_curve \o s.equity_curve = whole.equity_curve

Resumed == log # <<>> /\ Last(log).call = "run_tail" /\ sim.pc # "halted"

(* C11, as stated: running bars[0..k), checkpointing (to_checkpoint, save, *)
(* load, from_checkpoint) and running bars[k..) on the restored simulator  *)
(* ends in the same final state, with the same subsequent fills,           *)
(* rejections and equity points, as one uninterrupted run over all bars.   *)
C11_ResumeMatchesUninterrupted == Resumed => MatchesUninterrupted(peer)

(* The same split without the checkpoint: the simulator that ran the first *)
(* k bars goes on with the others and matches the uninterrupted run        *)
ContinuedMatchesUninterrupted == Resumed => MatchesUninterrupted(Continued)

(* The file load was given in call i of the log, the defects of that file  *)
(* and of that call: the four of FileDefects, and "hash" when an expected  *)
(* config_hash is given and the file holds another                         *)
LoadCalls == {i \in 1..Len(log) : log[i].call = "load"}

LoadCauses(i) ==
  LET file == log[i - 1].result
      expected == log[i].arg
  IN  {d \in FileDefects :
         \/ d = "pickle" /\ file.prefix = "pickle"
         \/ d = "corrupt" /\ ~file.decodes
         \/ d = "not_map" /\ file.payload.kind # "map"
         \/ d = "newer_schema" /\ file.payload.kind = "map"
              /\ file.payload.value.schema_version > CHECKPOINT_SCHEMA_VERSION}
      \cup (IF /\ expected # <<>>
               /\ file.payload.kind = "map"
               /\ file.payload.value.config_hash # expected[1]
            THEN {"hash"} ELSE {})

SavedFile == log[CHOOSE i \in 1..Len(log) : log[i].call = "save"].result

(* What load raises for the saved file with the one defect `cause` *)
RaisedFor(cause) ==
  IF cause = "hash" THEN load(SavedFile, <<"h2">>)
  ELSE load(Damaged(SavedFile, {cause}), <<>>)

(* C14, as stated: load fails for a legacy pickle prefix, for undecodable  *)
(* bytes, for a payload that is not a map, for a schema_version above the  *)
(* supported one and for a config_hash other than the expected one; each   *)
(* cause is reported with an error kind of its own; a file with none of    *)
(* these defects loads.                                                    *)
C14_OwnErrorKindPerCause ==
  \A i \in LoadCalls :
    /\ log[i].result.ok <=> LoadCauses(i) = {}
    /\ \A c \in LoadCauses(i), d \in FileDefects \cup {"hash"} :
         (LoadCauses(i) = {c} /\ d # c)
           => /\ log[i].result.error = RaisedFor(c).error
              /\ log[i].result.error # RaisedFor(d).error

(* What load does: it fails exactly when one of the five causes is there;  *)
(* the four format causes raise CheckpointFormatError, each with a message *)
(* of its own, and the hash mismatch alone raises ValueError               *)
LoadFailsWithOwnMessage ==
  \A i \in LoadCalls :
    /\ log[i].result.ok <=> LoadCauses(i) = {}
    /\ \A c \in LoadCauses(i), d \in FileDefects \cup {"hash"} :
         (LoadCauses(i) = {c} /\ d # c)
           => /\ log[i].result = RaisedFor(c)
              /\ log[i].result.message # RaisedFor(d).message
              /\ log[i].result.error =
                   IF c = "hash" THEN "ValueError" ELSE "CheckpointFormatError"

-----------------------------------------------------------------------------
(* Brackets and DAY orders over the bars of a run (specification Spec) *)

(* The fills of input order `parent` itself *)
EntryFills(s, parent) ==
  {n \in 1..Len(s.fills) : s.fills[n].client_order_id = parent}

(* C21: a bracket created by a fill on bar i is evaluated on later bars    *)
(* only: every fill of a bracket leg is on a bar after the bar of the fill *)
(* of its entry order, so the earliest bar of a bracket exit is bar i + 1. *)
C21_BracketExitOnLaterBar ==
  \A parent \in 1..Len(orders) :
    \A m \in EntryFills(sim, parent), n \in LegFills(sim, parent) :
      BarIndexAt(sim.fills[n].timestamp) > BarIndexAt(sim.fills[m].timestamp)

(* What holds instead: a leg is never filled on a bar before the bar of   *)
(* its entry fill, and it follows the entry fill in the list of fills      *)
BracketExitNotBeforeEntry ==
  \A parent \in 1..Len(orders) :
    \A m \in EntryFills(sim, parent), n \in LegFills(sim, parent) :
      /\ BarIndexAt(sim.fills[n].timestamp) >= BarIndexAt(sim.fills[m].timestamp)
      /\ m < n

-----------------------------------------------------------------------------
(* A run whose bars are known from the start, step by step: a provider     *)
(* with the PDT rule, a provider with T+1 settlement and a swap rate for   *)
(* AAPL, and a run called with min_delay_bars = -1.  Before the run the    *)
(* caller may set account_state.day_trades_remaining and put a lot into    *)
(* account_state.positions, as tests/test_pdt.py does.                     *)

SessionConfigs ==
  { [BaseCfg EXCEPT !.pdt_enabled = TRUE],
    [BaseCfg EXCEPT !.settlement_days = 1,
                    !.swap_rates = [NoSwapRates EXCEPT !["AAPL"] = 365]],
    [BaseCfg EXCEPT !.min_delay = 0 - 1] }

SessionOrders ==
  UNION { {[i \in 1..n |-> MakeOrder(ch[i][1], i, ch[i][2])] :
             ch \in [1..n -> {BracketBuy, MarketSell} \X (1..NumBars)]} :
          n \in 0..MaxOrders }

SessionShapes ==
  { [symbol |-> "AAPL", open |-> p, high |-> p, low |-> p, close |-> p, volume |-> 2] :
      p \in {100, 200} }

(* One bar per tick from tick 1 on: a first bar, and later bars that are   *)
(* all alike                                                               *)
SessionBars ==
  {[i \in 1..NumBars |-> MakeBar(IF i = 1 THEN first ELSE later, i)] :
     first \in SessionShapes, later \in SessionShapes}

(* The lots of AAPL before the run: none, or one lot of 2 *)
SessionLots ==
  { <<>>, <<[quantity |-> 2, entry_price |-> 200, entry_time |-> 0]>> }

SessionInit ==
  /\ cfg \in SessionConfigs
  /\ orders \in SessionOrders
  /\ bars \in SessionBars
  /\ \E d \in {0, 1, PdtDefault}, lots \in SessionLots :
       sim = [Construct(cfg) EXCEPT
                !.day_trades_remaining = IF cfg.pdt_enabled THEN d ELSE @,
                !.positions["AAPL"].lots = lots]
  /\ process_rng = random_seed(cfg.random_seed)
  /\ peer = Unbuilt(cfg)
  /\ log = <<>>

(* The head of the loop body for the next bar of `bars` *)
BarHead ==
  /\ sim.pc = "bar"
  /\ sim' = OpenBar(Loaded, CurrentBar, cfg)
  /\ process_rng' = sim'.rng
  /\ UNCHANGED <<cfg, orders, bars, peer, log>>

SessionNext == RunStart \/ BarHead \/ OrderStep \/ BracketStep \/ BarClose

SpecSession == SessionInit /\ [][SessionNext]_vars

-----------------------------------------------------------------------------
(* Brackets, settlement, swap and the PDT counter (specification           *)
(* SpecSession)                                                            *)

(* The bar reaches one of the bracket's legs *)
Triggers(bracket, bar) ==
  sl_trigger(bracket, bar.high, bar.low) \/ tp_trigger(bracket, bar.high, bar.low)

(* C22: a bracket yields at most one fill over the run.  The step of the   *)
(* bracket loop that finds a leg triggered adds at most one fill, a fill   *)
(* of that bracket's leg, and does not put the bracket among the remaining *)
(* brackets; the step that finds no leg triggered adds no fill and puts    *)
(* the bracket, as it is, among the remaining brackets; the end of the bar *)
(* makes the remaining brackets the active ones.  Outside the bracket loop *)
(* every active bracket has both legs as create_brackets made them and no  *)
(* fill, and no bracket ever has two.                                      *)
C22_OneFillPerBracket ==
  [][ /\ sim.pc = "brackets" =>
           LET bracket == sim.active_brackets[sim.j] IN
           IF Triggers(bracket, CurrentBar)
           THEN /\ sim'.remaining_brackets = sim.remaining_brackets
                /\ Len(sim'.fills) <= Len(sim.fills) + 1
                /\ \A n \in (Len(sim.fills) + 1)..Len(sim'.fills) :
                     sim'.fills[n].client_order_id = 0 - bracket.parent_id
           ELSE /\ sim'.remaining_brackets = Append(sim.remaining_brackets, bracket)
                /\ sim'.fills = sim.fills
      /\ sim.pc = "close" => sim'.active_brackets = sim.remaining_brackets
      /\ sim'.pc \notin {"brackets", "close"} =>
           \A i \in 1..Len(sim'.active_brackets) :
             LET bracket == sim'.active_brackets[i] IN
             /\ bracket = create_brackets(0, orders[bracket.parent_id])
             /\ LegFills(sim', bracket.parent_id) = {}
      /\ \A parent \in 1..Len(orders) : Cardinality(LegFills(sim', parent)) <= 1 ]_vars

(* A finished run in which a bracket was left alone by the bar of its      *)
(* entry, had a leg filled on a later bar, and has no second fill although *)
(* a bar after that reaches a leg again                                    *)
C22_PersistedThenFilledOnce ==
  /\ sim.pc = "done"
  /\ \E parent \in 1..Len(orders) :
       \E m \in EntryFills(sim, parent), n \in LegFills(sim, parent) :
         LET bracket == create_brackets(0, orders[parent])
             entry == BarIndexAt(sim.fills[m].timestamp) + 1
             exit == BarIndexAt(sim.fills[n].timestamp) + 1
         IN  /\ ~Triggers(bracket, bars[entry])
             /\ exit > entry
             /\ \E i \in (exit + 1)..Len(bars) : Triggers(bracket, bars[i])
             /\ LegFills(sim, parent) = {n}

-----------------------------------------------------------------------------
(* DAY orders and the order of processing (specification Spec) *)

DayOrders == {id \in 1..Len(orders) : orders[id].time_in_force = "DAY"}

IsActive(id) ==
  \E i \in 1..Len(sim.active_orders) : sim.active_orders[i].client_order_id = id

(* C23: a DAY order is active on one bar only, the bar that activates it:  *)
(* it is among the active orders only during that bar's body (or when the  *)
(* activation loop of that bar raised and ended the run), every fill and   *)
(* every rejection of it is on that bar, and once the bar is closed        *)
(* without a fill of it, it is gone and has no fill for the rest of the    *)
(* run.                                                                    *)
C23_DayOrderLivesOneBar ==
  \A id \in DayOrders :
    LET o == orders[id] IN
    /\ IsActive(id) =>
         /\ HasOrigin(o)
         /\ sim.pc \in {"orders", "brackets", "close", "aborted"}
         /\ sim.bar_idx = FirstEligibleBar(o)
    /\ \A n \in EntryFills(sim, id) :
         BarIndexAt(sim.fills[n].timestamp) = FirstEligibleBar(o)
    /\ \A i \in 1..Len(sim.rejected_orders) :
         sim.rejected_orders[i].order.client_order_id = id =>
           BarIndexAt(sim.rejected_orders[i].timestamp) = FirstEligibleBar(o)
    /\ (HasOrigin(o) /\ sim.bar_idx > FirstEligibleBar(o)) => ~IsActive(id)

(* A finished run with a DAY order that was rejected on a bar before the   *)
(* last, and a DAY order that no check rejected, whose price its bar did   *)
(* not reach and a later bar does reach; neither has a fill                *)
C23_ExpiredUnfilled ==
  /\ sim.pc = "done"
  /\ \E id \in DayOrders :
       /\ EntryFills(sim, id) = {}
       /\ \E i \in 1..Len(sim.rejected_orders) :
            /\ sim.rejected_orders[i].order.client_order_id = id
            /\ BarIndexAt(sim.rejected_orders[i].timestamp) + 1 < Len(bars)
  /\ \E id \in DayOrders :
       LET o == orders[id] IN
       /\ HasOrigin(o)
       /\ EntryFills(sim, id) = {}
       /\ \A i \in 1..Len(sim.rejected_orders) :
            sim.rejected_orders[i].order.client_order_id # id
       /\ FirstEligibleBar(o) + 1 < Len(bars)
       /\ match_order(o, bars[FirstEligibleBar(o) + 1], 0, 0, 0, <<>>) = <<>>
       /\ \E i \in (FirstEligibleBar(o) + 2)..Len(bars) :
            match_order(o, bars[i], 0, 0, 0, <<>>) # <<>>

-----------------------------------------------------------------------------
(* The cash an order sees.  All orders of SpecSession trade AAPL. *)

SignedQuantity(f) == IF f.side = "buy" THEN f.quantity ELSE 0 - f.quantity

(* The fills up to, and not including, those of the bar with index b *)
FillsBefore(b) == {n \in 1..Len(sim.fills) : BarIndexAt(sim.fills[n].timestamp) < b}

(* The quantity of AAPL held when the bar with index b begins: what is     *)
(* held now, less what the fills of that bar and of later bars added       *)
HeadQuantity(b) ==
  net_quantity(sim.positions["AAPL"])
  - SumOver([n \in 1..Len(sim.fills) |-> SignedQuantity(sim.fills[n])],
            (1..Len(sim.fills)) \ FillsBefore(b))

(* The bars up to index b at which a swap is due: at or after the roll,    *)
(* and the first such bar of their date                                    *)
SwapBars(b) ==
  {i \in 0..b :
     /\ swap_applicable(bars[i + 1].timestamp)
     /\ \A j \in 0..(i - 1) :
          ~( swap_applicable(bars[j + 1].timestamp)
             /\ Date(bars[j + 1].timestamp) = Date(bars[i + 1].timestamp) )}

(* What the swaps due up to bar b add to cash: a long position pays the    *)
(* daily swap on its value at the bar's close, a short one receives it     *)
SwapCash(b) ==
  IF cfg.swap_rates["AAPL"] = None THEN 0
  ELSE SumOver([i \in 0..b |->
                  LET q == HeadQuantity(i)
                      due == daily_swap(Abs(q) * bars[i + 1].close, cfg.swap_rates["AAPL"])
                               * swap_multiplier_for_weekday(bars[i + 1].timestamp)
                  IN  IF q > 0 THEN 0 - due ELSE due],
               SwapBars(b))

(* The sell proceeds released by time t, and the cost of all buys *)
ReleasedCash(t) ==
  SumOver([n \in 1..Len(sim.fills) |->
             LET f == sim.fills[n] IN
             IF f.side = "sell" /\ f.timestamp + cfg.settlement_days * TicksPerDay <= t
             THEN f.price * f.quantity - f.commission ELSE 0],
          1..Len(sim.fills))

PaidCash ==
  SumOver([n \in 1..Len(sim.fills) |->
             LET f == sim.fills[n] IN
             IF f.side = "buy" THEN f.price * f.quantity + f.commission ELSE 0],
          1..Len(sim.fills))

(* C24: while the orders and the brackets of a bar are processed, the      *)
(* settlement and the swap of that bar are done: no queued entry is due at *)
(* the bar's time, a swap that is due on the bar has set last_swap_time to *)
(* the bar's date, and cash is the initial capital less what the buys      *)
(* cost, plus the sell proceeds released up to this bar's time, plus the   *)
(* swaps of the bars up to and including this one.                         *)
C24_SettledAndSwappedBeforeOrders ==
  sim.pc \in {"orders", "brackets", "close"} =>
    /\ \A i \in 1..Len(sim.settlement_queue) :
         sim.settlement_queue[i].release_time > CurrentBar.timestamp
    /\ ( cfg.swap_rates["AAPL"] # None /\ swap_applicable(CurrentBar.timestamp) ) =>
         swapped_today(sim.last_swap_time, CurrentBar.timestamp)
    /\ sim.cash = cfg.initial_capital - PaidCash + ReleasedCash(CurrentBar.timestamp)
                    + SwapCash(sim.bar_idx)

(* An order is about to be checked on a bar whose head released the        *)
(* proceeds of a sell of an earlier bar, in a run that has paid a swap     *)
C24_OrderAfterReleaseAndSwap ==
  /\ sim.pc = "orders"
  /\ cfg.settlement_days > 0
  /\ \E n \in 1..Len(sim.fills) :
       /\ sim.fills[n].side = "sell"
       /\ sim.fills[n].timestamp + cfg.settlement_days * TicksPerDay
            = CurrentBar.timestamp
  /\ SwapCash(sim.bar_idx) # 0

(* The positions in the input sequence of the orders that are active *)
ActiveIds == [i \in 1..Len(sim.active_orders) |-> sim.active_orders[i].client_order_id]

(* C25: within one bar the active orders are processed in the order in     *)
(* which they appear in the input sequence, whatever their timestamps and  *)
(* whether they were activated on this bar or carried over: the order loop *)
(* goes through the active orders from first to last, and their positions  *)
(* in the input sequence increase along the list.                          *)
C25_ProcessedInInputOrder ==
  sim.pc = "orders" =>
    \A m, n \in 1..Len(sim.active_orders) : m < n => ActiveIds[m] < ActiveIds[n]

(* What holds instead: along the list of active orders the first-eligible  *)
(* bar index of run's pre-sort does not decrease, and orders with the same *)
(* index are in input order; so the input order is kept when the orders'   *)
(* timestamps do not decrease along the input sequence.                    *)
ProcessedByOriginThenInput ==
  sim.pc \in {"orders", "brackets", "close"} =>
    /\ \A m, n \in 1..Len(sim.active_orders) :
         m < n =>
           LET a == origin_idx(orders[ActiveIds[m]], bars)
               b == origin_idx(orders[ActiveIds[n]], bars)
           IN  a < b \/ (a = b /\ ActiveIds[m] < ActiveIds[n])
    /\ ( \A i, j \in 1..Len(orders) : i < j => orders[i].timestamp <= orders[j].timestamp )
         => \A m, n \in 1..Len(sim.active_orders) : m < n => ActiveIds[m] < ActiveIds[n]

-----------------------------------------------------------------------------
(* The daily swap on its own: apply_daily_swap called directly on one      *)
(* AccountState that holds positions, as tests/test_swaps.py does.  `sim`  *)
(* holds the account, cfg.swap_rates the rates passed, `log` the calls     *)
(* with the account before and after each.                                 *)

SwapRates ==
  { [NoSwapRates EXCEPT !["AAPL"] = 365],
    [NoSwapRates EXCEPT !["AAPL"] = 0 - 365, !["GOOGL"] = 365] }

SwapLot(quantity) == <<[quantity |-> quantity, entry_price |-> 200, entry_time |-> 0]>>

(* Long AAPL; short AAPL and long GOOGL; no position at all *)
SwapPositions ==
  { [AAPL |-> [lots |-> SwapLot(2), realized_pnl |-> 0], GOOGL |-> EmptyRecord],
    [AAPL |-> [lots |-> SwapLot(0 - 1), realized_pnl |-> 0],
     GOOGL |-> [lots |-> SwapLot(1), realized_pnl |-> 0]],
    [AAPL |-> EmptyRecord, GOOGL |-> EmptyRecord] }

SwapMarks == [AAPL |-> 200, GOOGL |-> 100]

(* Three days of ticks; the third day is a Wednesday *)
SwapTimes == 0..(3 * TicksPerDay - 1)

SwapView(s) ==
  [cash |-> s.cash,
   realized_pnl |-> [sym \in Symbols |-> s.positions[sym].realized_pnl],
   last_swap_time |-> s.last_swap_time]

SwapInit ==
  /\ \E rates \in SwapRates : cfg = [BaseCfg EXCEPT !.swap_rates = rates]
  /\ orders = <<>>
  /\ bars = <<>>
  /\ \E positions \in SwapPositions : sim = [Construct(cfg) EXCEPT !.positions = positions]
  /\ peer = Unbuilt(cfg)
  /\ process_rng = random_seed(cfg.random_seed)
  /\ log = <<>>

ApplyDailySwap ==
  /\ Len(log) < MaxCalls
  /\ \E t \in SwapTimes :
       /\ sim' = apply_daily_swap(sim, t, cfg.swap_rates, SwapMarks)
       /\ log' = Append(log, [call |-> "apply_daily_swap", arg |-> t,
                              before |-> SwapView(sim), after |-> SwapView(sim')])
  /\ UNCHANGED <<cfg, orders, bars, peer, process_rng>>

SpecSwap == SwapInit /\ [][ApplyDailySwap]_vars

(* Call i applied a swap: it moved last_swap_time *)
SwapApplied(i) == log[i].after.last_swap_time # log[i].before.last_swap_time

(* C26, as stated: once a call has applied a swap at a timestamp of date   *)
(* d, every further call with a timestamp of date d leaves cash, every     *)
(* realized_pnl and last_swap_time as they were; and so does every call at *)
(* a time before the roll.                                                 *)
C26_OncePerDate ==
  \A j \in 1..Len(log) :
    ( \/ ~swap_applicable(log[j].arg)
      \/ \E i \in 1..(j - 1) :
           SwapApplied(i) /\ Date(log[i].arg) = Date(log[j].arg) )
    => log[j].after = log[j].before

(* C26, amended: a call at a time before the roll changes nothing; a call  *)
(* at or after the roll changes nothing when the last swap applied, the    *)
(* one last_swap_time records, was at a timestamp of the same date; every  *)
(* other call at or after the roll applies the swap: it sets               *)
(* last_swap_time to its timestamp and moves cash by what it adds to the   *)
(* positions' realized_pnl.  A swap applied at another date in between     *)
(* makes a date swappable again.                                           *)
C26_OncePerDateSinceLastSwap ==
  \A j \in 1..Len(log) :
    LET c == log[j]
        same_date == /\ c.before.last_swap_time # None
                     /\ Date(c.before.last_swap_time) = Date(c.arg)
    IN  IF ~swap_applicable(c.arg) \/ same_date
        THEN c.after = c.before
        ELSE /\ c.after.last_swap_time = c.arg
             /\ c.after.cash - c.before.cash
                  = SumOver([sym \in Symbols |->
                               c.after.realized_pnl[sym] - c.before.realized_pnl[sym]],
                            Symbols)

(* A swap that moved cash, then a call later on the same date that left    *)
(* everything as it was                                                    *)
C26_SecondCallSameDate ==
  \E i, j \in 1..Len(log) :
    /\ j = i + 1
    /\ log[i].after.cash # log[i].before.cash
    /\ log[j].arg >= log[i].arg
    /\ Date(log[j].arg) = Date(log[i].arg)
    /\ swap_applicable(log[j].arg)
    /\ log[j].after = log[j].before

-----------------------------------------------------------------------------
(* The matcher on its own: match_order called on one order and one bar,    *)
(* as tests/test_execution_edge_cases.py does.  `orders` holds the order,  *)
(* `bars` the bar, `log` the calls with their slippage, commission and     *)
(* result.                                                                 *)

MatchCalls == 2

MatchPrices == {100, 200, 300}

(* Well-formed orders: a limit order has a limit_price, a stop order a     *)
(* stop_price, a stop-limit order both                                     *)
MatchOrders ==
  { o \in { MakeOrder(OrderKind(side, type, 1, limit, stop, "GTC", None, None, "AAPL"),
                      1, 0) :
              side \in {"buy", "sell"}, type \in {"MARKET", "LIMIT", "STOP", "STOP_LIMIT"},
              limit \in MatchPrices \cup {None}, stop \in MatchPrices \cup {None} } :
      /\ (o.limit_price # None) <=> (o.order_type \in {"LIMIT", "STOP_LIMIT"})
      /\ (o.stop_price # None) <=> (o.order_type \in {"STOP", "STOP_LIMIT"}) }

(* Bars with low <= open <= high *)
MatchBars ==
  { b \in { MakeBar([symbol |-> "AAPL", open |-> o, high |-> h, low |-> l, close |-> o,
                     volume |-> 2], 0) :
              o \in MatchPrices, h \in MatchPrices, l \in MatchPrices } :
      b.low <= b.open /\ b.open <= b.high }

MatchSlippages == {0, 10}

MatchCommissions == {0, 1}

(* What uuid4() can return in a call *)
MatchUuid == {<<"a", 1>>, <<"a", 2>>}

MatchInit ==
  /\ cfg = BaseCfg
  /\ \E order \in MatchOrders : orders = <<order>>
  /\ \E bar \in MatchBars : bars = <<bar>>
  /\ sim = Unbuilt(cfg)
  /\ peer = Unbuilt(cfg)
  /\ process_rng = random_seed(cfg.random_seed)
  /\ log = <<>>

MatchOrder ==
  /\ Len(log) < MatchCalls
  /\ \E slippage \in MatchSlippages, commission \in MatchCommissions, u \in MatchUuid :
       log' = Append(log,
                [call |-> "match_order", slippage |-> slippage, commission |-> commission,
                 result |-> match_order(orders[1], bars[1], slippage, commission,
                                        bars[1].timestamp, u)])
  /\ UNCHANGED <<cfg, orders, bars, sim, peer, process_rng>>

SpecMatch == MatchInit /\ [][MatchOrder]_vars

(* The table of fill prices: <<>> for no fill, <<price>> for a fill *)
LimitRule(order, bar) ==
  IF order.side = "buy"
  THEN IF bar.low <= order.limit_price THEN <<Min(bar.open, order.limit_price)>> ELSE <<>>
  ELSE IF bar.high >= order.limit_price THEN <<Max(bar.open, order.limit_price)>> ELSE <<>>

StopCondition(order, bar) ==
  IF order.side = "buy" THEN bar.high >= order.stop_price ELSE bar.low <= order.stop_price

ReferencePrice(order, bar, slippage) ==
  IF order.order_type = "MARKET"
  THEN <<IF order.side = "buy" THEN bar.open + slippage ELSE bar.open - slippage>>
  ELSE IF order.order_type = "LIMIT" THEN LimitRule(order, bar)
  ELSE IF order.order_type = "STOP"
  THEN IF StopCondition(order, bar)
       THEN <<IF order.side = "buy" THEN Max(order.stop_price, bar.open) + slippage
              ELSE Min(order.stop_price, bar.open) - slippage>>
       ELSE <<>>
  ELSE IF StopCondition(order, bar) THEN LimitRule(order, bar) ELSE <<>>

(* C27, as stated: every call returns what the table says (no fill, or a   *)
(* fill at the table's price), and the result depends only on (order, bar, *)
(* slippage, commission): two calls with the same four return the same.    *)
C27_TableAndPure ==
  /\ \A i \in 1..Len(log) :
       LET ref == ReferencePrice(orders[1], bars[1], log[i].slippage)
       IN  IF ref = <<>> THEN log[i].result = <<>>
           ELSE log[i].result # <<>> /\ log[i].result[1].price = ref[1]
  /\ \A i, j \in 1..Len(log) :
       (log[i].slippage = log[j].slippage /\ log[i].commission = log[j].commission)
         => log[i].result = log[j].result

(* What holds: every call returns what the table says, the fill carries    *)
(* the order's client_order_id, symbol, side and quantity, the slippage    *)
(* and commission passed and the bar's timestamp, and two calls with the   *)
(* same slippage and commission return the same but for fill_id.           *)
MatchOrderTableButFillId ==
  /\ \A i \in 1..Len(log) :
       LET ref == ReferencePrice(orders[1], bars[1], log[i].slippage)
       IN  IF ref = <<>> THEN log[i].result = <<>>
           ELSE /\ log[i].result # <<>>
                /\ [log[i].result[1] EXCEPT !.fill_id = None]
                     = Fill(orders[1], ref[1], log[i].slippage, log[i].commission,
                            bars[1].timestamp, None)
  /\ \A i, j \in 1..Len(log) :
       (log[i].slippage = log[j].slippage /\ log[i].commission = log[j].commission)
         => \/ log[i].result = <<>> /\ log[j].result = <<>>
            \/ /\ log[i].result # <<>> /\ log[j].result # <<>>
               /\ [log[i].result[1] EXCEPT !.fill_id = None]
                    = [log[j].result[1] EXCEPT !.fill_id = None]

(* A stop-limit order whose stop is hit and whose limit the bar does not   *)
(* reach returned no fill                                                  *)
StopLimitTriggeredUnfilled ==
  /\ log # <<>>
  /\ orders[1].order_type = "STOP_LIMIT"
  /\ StopCondition(orders[1], bars[1])
  /\ LimitRule(orders[1], bars[1]) = <<>>
  /\ log[1].result = <<>>

-----------------------------------------------------------------------------
(* A negative minimum delay (specification SpecSession) *)

(* C28, as stated: a run called with a min_delay_bars for which            *)
(* is_order_eligible raises fails before any order participates in a bar:  *)
(* no order is ever active, filled or rejected.                            *)
C28_NegativeDelayFailsRun ==
  is_order_eligible_raises(cfg.min_delay)
    => /\ sim.active_orders = <<>>
       /\ sim.fills = <<>>
       /\ sim.rejected_orders = <<>>

(* What the run does instead: with min_delay_bars = -1 an order is         *)
(* activated on its origin bar and filled there, and the run goes on       *)
NegativeDelayFillsAtOrigin ==
  /\ cfg.min_delay < 0
  /\ sim.pc = "done"
  /\ \E i \in 1..Len(sim.fills), k \in 1..Len(orders) :
       /\ sim.fills[i].client_order_id = orders[k].client_order_id
       /\ sim.fills[i].timestamp = orders[k].timestamp

-----------------------------------------------------------------------------
(* The pattern-day-trader counter (specification SpecSession) *)

(* C29: with PDT enabled, a step of the order loop whose order is          *)
(* classified as a day trade (it closes out the position on the day it was *)
(* placed) adds a fill only if day_trades_remaining > 0 before the step,   *)
(* and the step that adds the fill takes exactly one off the counter; no   *)
(* other step changes the counter, and the counter is never negative.      *)
C29_PdtCounter ==
  [][ cfg.pdt_enabled =>
        /\ sim.day_trades_remaining >= 0
        /\ sim'.day_trades_remaining >= 0
        /\ IF sim.pc = "orders"
           THEN IF /\ day_trade(sim, sim.active_orders[sim.k], CurrentBar)
                   /\ Len(sim'.fills) > Len(sim.fills)
                THEN /\ sim.day_trades_remaining > 0
                     /\ sim'.day_trades_remaining = sim.day_trades_remaining - 1
                ELSE sim'.day_trades_remaining = sim.day_trades_remaining
           ELSE sim'.day_trades_remaining = sim.day_trades_remaining ]_vars

(* A finished run with PDT enabled in which a day trade was filled and     *)
(* took one off the counter                                                *)
C29_FilledAndCounted ==
  /\ cfg.pdt_enabled
  /\ sim.pc = "done"
  /\ sim.day_trades_remaining = PdtDefault - 1
  /\ \E i \in 1..Len(sim.fills) :
       sim.fills[i].side = "sell" /\ sim.fills[i].client_order_id > 0

(* A finished run with PDT enabled in which a day trade met a counter of 0 *)
(* and was rejected                                                        *)
PdtBlockedAtZero ==
  /\ cfg.pdt_enabled
  /\ sim.pc = "done"
  /\ sim.day_trades_remaining = 0
  /\ sim.fills = <<>>
  /\ \E n \in 1..Len(sim.rejected_orders) :
       sim.rejected_orders[n].reason = "PDT limit exceeded"

-----------------------------------------------------------------------------
(* The daily frequency cap (specification Spec) *)

(* The rejection the order loop records for the order at k *)
FrequencyRejection ==
  [order |-> sim.active_orders[sim.k], reason |-> "Frequency cap reached",
   timestamp |-> CurrentBar.timestamp]

(* C30, as stated: with frequency_cap_per_day = N, trades_today never      *)
(* exceeds N, and an order processed when trades_today >= N is rejected    *)
(* with the frequency-cap reason.                                          *)
C30_TradesTodayWithinCap ==
  [][ cfg.frequency_cap_per_day # None =>
        /\ sim'.trades_today <= cfg.frequency_cap_per_day
        /\ (sim.pc = "orders" /\ sim.trades_today >= cfg.frequency_cap_per_day)
             => sim'.rejected_orders = Append(sim.rejected_orders, FrequencyRejection)
    ]_vars

(* C30, amended: with frequency_cap_per_day = N and no net-position cap    *)
(* and no equity floor (which are consulted first), an order processed     *)
(* when trades_today >= N is rejected with the frequency-cap reason and    *)
(* adds no fill and no trade; an order processed when trades_today < N     *)
(* leaves trades_today at N or below.  Only a fill of a bracket leg, which *)
(* passes no cap, can take trades_today above N, by one per fill.          *)
C30_CapOnOrdersNotOnBrackets ==
  [][ ( /\ cfg.frequency_cap_per_day # None
        /\ cfg.net_position_cap_pct = None
        /\ cfg.equity_floor_pct = None ) =>
        /\ sim.pc = "orders" =>
             IF sim.trades_today >= cfg.frequency_cap_per_day
             THEN /\ sim'.rejected_orders = Append(sim.rejected_orders, FrequencyRejection)
                  /\ sim'.fills = sim.fills
                  /\ sim'.trades_today = sim.trades_today
             ELSE sim'.trades_today <= cfg.frequency_cap_per_day
        /\ (sim.pc # "orders" /\ sim'.trades_today > sim.trades_today) =>
             /\ sim.pc = "brackets"
             /\ sim'.trades_today = sim.trades_today + 1
             /\ Len(sim'.fills) = Len(sim.fills) + 1
             /\ sim'.fills[Len(sim'.fills)].client_order_id
                  = 0 - sim.active_brackets[sim.j].parent_id
    ]_vars

(* A run with a cap of 1 in which, on one bar, the entry filled, the next  *)
(* order was rejected for the cap, and the fill of the bracket leg took    *)
(* trades_today to 2                                                       *)
C30_LegFillAboveCap ==
  /\ cfg.frequency_cap_per_day = 1
  /\ sim.trades_today = 2
  /\ \E n \in 1..Len(sim.rejected_orders), i \in 1..Len(sim.fills) :
       /\ sim.rejected_orders[n].reason = "Frequency cap reached"
       /\ sim.fills[i].client_order_id < 0
       /\ sim.rejected_orders[n].timestamp = sim.fills[i].timestamp

-----------------------------------------------------------------------------
(* The daily reset (specification SpecSession) *)

(* cash + unsettled_cash + every position's net quantity at the price *)
EquityAt(s, price) ==
  s.cash + s.unsettled_cash
    + SumOver([sym \in Symbols |-> net_quantity(s.positions[sym]) * price], Symbols)

-----------------------------------------------------------------------------
(* Orders of one bar see the fills before them (specification Spec) *)

(* C32: the checks of an order use the account as the earlier fills of the *)
(* same bar left it.  A step of the order loop whose order is a buy with   *)
(* quantity x bar open above the cash + unsettled_cash of that moment adds *)
(* no fill and records a rejection of that order on that bar, whatever the *)
(* cash was when the bar began.                                            *)
C32_ChecksSeeEarlierFills ==
  [][ sim.pc = "orders" =>
        LET order == sim.active_orders[sim.k]
            value == order.quantity * CurrentBar.open
            available == sim.cash + sim.unsettled_cash
        IN  (order.side = "buy" /\ value > available) =>
              /\ sim'.fills = sim.fills
              /\ Len(sim'.rejected_orders) = Len(sim.rejected_orders) + 1
              /\ Last(sim'.rejected_orders).order = order
              /\ Last(sim'.rejected_orders).timestamp = CurrentBar.timestamp ]_vars

(* Two buys on one bar, each within the cash the bar began with and not    *)
(* both: the first filled and the second was rejected for buying power     *)
C32_FirstFillsSecondRejected ==
  /\ Len(orders) = 2
  /\ Len(sim.fills) = 1
  /\ Len(sim.rejected_orders) = 1
  /\ LET fill == sim.fills[1]
         rejected == sim.rejected_orders[1]
         bar == bars[BarIndexAt(fill.timestamp) + 1]
     IN  /\ fill.client_order_id = 1
         /\ fill.side = "buy"
         /\ rejected.order.client_order_id = 2
         /\ rejected.order.side = "buy"
         /\ rejected.timestamp = fill.timestamp
         /\ rejected.reason = "Insufficient buying power"
         /\ fill.quantity * bar.open <= cfg.initial_capital
         /\ rejected.order.quantity * bar.open <= cfg.initial_capital
         /\ (fill.quantity + rejected.order.quantity) * bar.open > cfg.initial_capital

-----------------------------------------------------------------------------
(* The buying-power check (specification Spec) *)

(* The reasons of the checks the pipeline runs before buying power *)
ReasonsBeforeBuyingPower ==
  {"Net position cap", "Equity floor breached", "Frequency cap reached", "Pyramiding cap",
   KillSwitchReason, "Cannot trade with non-positive equity", "Position limit exceeded"}

(* The step of the order loop recorded a rejection *)
StepRejected == Len(sim'.rejected_orders) = Len(sim.rejected_orders) + 1

(* The step of the order loop added a fill *)
StepFilled == Len(sim'.fills) = Len(sim.fills) + 1

-----------------------------------------------------------------------------
(* Shorts disabled (specification Spec) *)

(* C34, as stated: with short_enabled false and no short position at the   *)
(* start, no position has a negative net quantity after any bar.           *)
C34_NoShortWhenDisabled ==
  (~cfg.short_enabled /\ sim.pc \in {"bar", "done"})
    => \A sym \in Symbols : net_quantity(sim.positions[sym]) >= 0

(* What holds: with short_enabled false a step of the order loop never     *)
(* takes a position below 0; only the fill of a bracket leg, which passes  *)
(* no check, does                                                          *)
ShortOnlyThroughBracketLeg ==
  [][ ~cfg.short_enabled =>
        \A sym \in Symbols :
          ( /\ net_quantity(sim.positions[sym]) >= 0
            /\ net_quantity(sim'.positions[sym]) < 0 )
            => /\ sim.pc = "brackets"
               /\ Len(sim'.fills) = Len(sim.fills) + 1
               /\ Last(sim'.fills).client_order_id = 0 - sim.active_brackets[sim.j].parent_id
               /\ Last(sim'.fills).side = "sell" ]_vars

-----------------------------------------------------------------------------
(* unsettled_cash and the settlement queue (specification SpecAccount) *)

(* C35: after any sequence of apply_fill and process_settlement calls,     *)
(* unsettled_cash is the sum of the amounts of the entries in              *)
(* settlement_queue, and 0 when the queue is empty; this holds of the      *)
(* account after every call.                                               *)
C35_UnsettledIsQueueSum ==
  /\ sim.unsettled_cash = SumAmounts(sim.settlement_queue)
  /\ sim.settlement_queue = <<>> => sim.unsettled_cash = 0
  /\ \A i \in 1..Len(log) :
       log[i].after.unsettled_cash = SumAmounts(log[i].after.settlement_queue)

(* Two sells were deferred, a process_settlement call released one of them *)
(* and the other is still queued                                           *)
C35_OneReleasedOneQueued ==
  /\ Len(sim.settlement_queue) = 1
  /\ sim.unsettled_cash > 0
  /\ \E i \in Settlements :
       /\ Len(Before(i).settlement_queue) = 2
       /\ Len(log[i].after.settlement_queue) = 1
       /\ log[i].after.unsettled_cash < Before(i).unsettled_cash

-----------------------------------------------------------------------------
(* One fill per input order (specification Spec) *)

(* The order of this id waits in the pending queue *)
IsPending(id) ==
  \E i \in 1..Len(sim.pending) : sim.pending[i].order.client_order_id = id

(* C36: an input order has at most one fill over a run; once it has        *)
(* filled, it is gone from the active orders when the order loop of that   *)
(* bar is over, it is not pending, and so no later bar matches it again.   *)
C36_OneFillPerOrder ==
  \A k \in 1..Len(orders) :
    LET id == orders[k].client_order_id IN
    /\ Cardinality(EntryFills(sim, id)) <= 1
    /\ EntryFills(sim, id) # {} =>
         /\ ~IsPending(id)
         /\ sim.pc # "orders" => ~IsActive(id)

(* A finished run in which a GTC market order filled on a bar that was not *)
(* the last: the later bars would have matched it again                    *)
C36_FilledOnceWithBarsLeft ==
  /\ sim.pc = "done"
  /\ \E k \in 1..Len(orders) :
       /\ orders[k].time_in_force = "GTC"
       /\ orders[k].order_type = "MARKET"
       /\ \E n \in EntryFills(sim, orders[k].client_order_id) :
            sim.fills[n].timestamp < bars[Len(bars)].timestamp

-----------------------------------------------------------------------------
(* Orders of every time_in_force over the bars of a run: the orders of a   *)
(* list share one time_in_force, are placed at timestamp 0 and carry no    *)
(* bracket; the bars are one tick apart.                                   *)

TimesInForce == {"DAY", "GTC", "IOC", "FOK"}

(* A limit buy a bar at 300 does not reach, and a market buy a bar at 300  *)
(* makes too dear for the capital                                          *)
TifKinds(tif) ==
  { OrderKind("buy", "LIMIT", 1, 200, None, tif, None, None, "AAPL"),
    OrderKind("buy", "MARKET", 2, None, None, tif, None, None, "AAPL") }

TifOrders ==
  UNION { {[i \in 1..n |-> MakeOrder(kind[i], i, 0)] : kind \in [1..n -> TifKinds(tif)]} :
          tif \in TimesInForce, n \in 1..MaxOrders }

TifInit ==
  /\ cfg = BaseCfg
  /\ orders \in TifOrders
  /\ bars = [i \in 1..NumBars |-> BlankBar(i - 1)]
  /\ sim = Construct(cfg)
  /\ process_rng = random_seed(cfg.random_seed)
  /\ peer = Unbuilt(cfg)
  /\ log = <<>>

TifNext == RunStart \/ BarOpen \/ OrderStep \/ BarClose

SpecTif == TifInit /\ [][TifNext]_vars

(* The order of this id is among the active orders of s *)
IsActiveIn(s, id) ==
  \E i \in 1..Len(s.active_orders) : s.active_orders[i].client_order_id = id

(* C37: an order that is not a DAY order and has not filled stays among    *)
(* the active orders over every step, the end of a bar included; the order *)
(* loop of every bar begins at the first active order and goes through     *)
(* all of them; a step of it fills the order, or records a rejection of    *)
(* the order with the bar's timestamp, or finds it unmatched, and an order *)
(* whose notional exceeds the cash is rejected on every bar that           *)
(* processes it.                                                           *)
C37_UnfilledOrderStaysActive ==
  [][ /\ \A n \in 1..Len(orders) :
           LET id == orders[n].client_order_id IN
           ( /\ orders[n].time_in_force # "DAY"
             /\ IsActiveIn(sim, id)
             /\ EntryFills(sim', id) = {} )
             => IsActiveIn(sim', id)
      /\ (sim.pc = "bar" /\ sim'.active_orders # <<>>)
           => (sim'.pc = "orders" /\ sim'.k = 1)
      /\ sim.pc = "orders" =>
           LET order == sim.active_orders[sim.k] IN
           /\ IF sim.k < Len(sim.active_orders)
              THEN sim'.pc = "orders" /\ sim'.k = sim.k + 1
              ELSE sim'.pc # "orders"
           /\ \/ /\ StepFilled
                 /\ Last(sim'.fills).client_order_id = order.client_order_id
                 /\ sim'.rejected_orders = sim.rejected_orders
              \/ /\ StepRejected
                 /\ Last(sim'.rejected_orders).order = order
                 /\ Last(sim'.rejected_orders).timestamp = CurrentBar.timestamp
                 /\ sim'.fills = sim.fills
              \/ /\ sim'.fills = sim.fills
                 /\ sim'.rejected_orders = sim.rejected_orders
           /\ order.quantity * CurrentBar.open > sim.cash + sim.unsettled_cash
                => StepRejected ]_vars

(* A finished run in which an IOC or FOK order was rejected on two bars    *)
(* and filled on a later one                                               *)
C37_RejectedTwiceThenFilled ==
  /\ sim.pc = "done"
  /\ \E n \in 1..Len(orders) :
       /\ orders[n].time_in_force \in {"IOC", "FOK"}
       /\ \E i, j \in 1..Len(sim.rejected_orders) :
            /\ i < j
            /\ sim.rejected_orders[i].order = orders[n]
            /\ sim.rejected_orders[j].order = orders[n]
            /\ sim.rejected_orders[i].timestamp < sim.rejected_orders[j].timestamp
            /\ \E m \in EntryFills(sim, orders[n].client_order_id) :
                 sim.fills[m].timestamp > sim.rejected_orders[j].timestamp

-----------------------------------------------------------------------------
(* Symbols of orders and bars (specification Spec) *)

(* The bar on which a fill was made *)
BarOfFill(fill) == bars[BarIndexAt(fill.timestamp) + 1]

(* C38, as stated: every fill's symbol is the symbol of the bar whose      *)
(* prices produced it, for fills of input orders and of bracket legs.      *)
C38_FillOnBarOfOwnSymbol ==
  \A i \in 1..Len(sim.fills) : BarOfFill(sim.fills[i]).symbol = sim.fills[i].symbol

(* What holds: a fill carries the symbol of its order, whatever the symbol *)
(* of the bar that priced it                                               *)
FillCarriesOrderSymbol ==
  \A i \in 1..Len(sim.fills) :
    \E n \in 1..Len(orders) :
      /\ sim.fills[i].client_order_id \in {orders[n].client_order_id,
                                           0 - orders[n].client_order_id}
      /\ sim.fills[i].symbol = orders[n].symbol

-----------------------------------------------------------------------------
(* Equity over a fill (specification SpecAccount) *)

(* The account's equity with the position in the symbol marked at a price  *)
MarkedEquity(account, symbol, price) ==
  account.cash + account.unsettled_cash + net_quantity(account.positions[symbol]) * price

(* C39: apply_fill of a fill at price p changes the equity marked at p     *)
(* (cash + unsettled_cash + net quantity x p) by exactly minus the fill's  *)
(* commission, for buys and sells, with and without a settlement delay,    *)
(* whether the fill opens, adds to, closes or flips the position.          *)
C39_FillCostsCommission ==
  \A i \in AppliedFills :
    LET fill == log[i].arg IN
    MarkedEquity(log[i].after, fill.symbol, fill.price)
      = MarkedEquity(Before(i), fill.symbol, fill.price) - fill.commission

(* A buy with a commission, and a sell with a commission and a settlement  *)
(* delay that flipped a long position into a short one                     *)
C39_FlipWithCommission ==
  /\ cfg.settlement_days > 0
  /\ \E i \in AppliedFills : log[i].arg.side = "buy" /\ log[i].arg.commission > 0
  /\ \E i \in AppliedFills :
       /\ log[i].arg.side = "sell"
       /\ log[i].arg.commission > 0
       /\ net_quantity(Before(i).positions["AAPL"]) > 0
       /\ net_quantity(log[i].after.positions["AAPL"]) < 0
       /\ log[i].after.cash = Before(i).cash

------------------------------------------------------------------------------
(* Orders later than every bar *)

LateOrders ==
  {id \in 1..Len(orders) : \A i \in 1..Len(bars) : bars[i].timestamp < orders[id].timestamp}

RejectionsOf(s, id) ==
  {i \in 1..Len(s.rejected_orders) : s.rejected_orders[i].order.client_order_id = id}

(* C40: an order whose timestamp is later than every bar's timestamp is    *)
(* queued with first-eligible index 0 and never has a fill or a rejection; *)
(* when bar index min_delay exists, the run with such an order goes        *)
(* through the bars before it without a fill or a rejection of any order,  *)
(* raises in the activation loop of bar min_delay, and returns no result:  *)
(* it never gets past that bar, never halts and never ends.                *)
C40_LateOrderAbortsRun ==
  \A id \in LateOrders :
    /\ \A i \in 1..Len(sim.pending) :
         sim.pending[i].order.client_order_id = id => sim.pending[i].origin = 0
    /\ EntryFills(sim, id) = {}
    /\ RejectionsOf(sim, id) = {}
    /\ ~IsActiveIn(sim, id)
    /\ cfg.min_delay < Len(bars) =>
         /\ sim.fills = <<>>
         /\ sim.rejected_orders = <<>>
         /\ sim.pc \in {"idle", "bar", "close", "aborted"}
         /\ sim.pc # "idle" => sim.bar_idx <= cfg.min_delay
         /\ sim.pc = "close" => sim.bar_idx < cfg.min_delay
         /\ sim.pc = "aborted" =>
              /\ sim.bar_idx = cfg.min_delay
              /\ SimulationResult(sim) = <<>>

(* C40's case: a run with a one-bar delay that raised at bar index 1 for   *)
(* an order later than every bar, while an order of bar 0 was activated in *)
(* the same loop and got neither a fill nor a rejection                    *)
C40_AbortedWithOrderOfBarZero ==
  /\ sim.pc = "aborted"
  /\ cfg.min_delay = 1
  /\ sim.bar_idx = 1
  /\ LateOrders # {}
  /\ \E id \in 1..Len(orders) :
       /\ id \notin LateOrders
       /\ IsActiveIn(sim, id)
       /\ EntryFills(sim, id) = {}
       /\ RejectionsOf(sim, id) = {}

====
